---- MODULE Spec2Model ----
(***************************************************************************)
(* A model of the go_licenser package (licenser.go): the Manager with its  *)
(* key resolution, license generation and validation, the caller's License *)
(* record, the SignedLicense in the caller's hands, the key files, the     *)
(* license file, the expiry queries and the wall clock.                    *)
(*                                                                         *)
(* Abstractions.  An RSA key pair is a record [id, bits]; the public key   *)
(* of a pair is identified with the pair (the private half is what a       *)
(* Manager with privateKey # NoKey holds).  sha256 and RSA PKCS#1 v1.5     *)
(* are taken to be collision free and unforgeable: a signature is the      *)
(* record of the key that made it and of the digest it was made over.      *)
(* A PEM text is the record of its block type and of the key it encodes.   *)
(* A Go string is a TLA+ string; BadUTF8 stands for one that holds a byte   *)
(* that is not UTF-8, every other string is valid UTF-8 (the keys and      *)
(* values of maps always are).  A Go map is a record [isNil, kv] and a Go  *)
(* slice a record [isNil, items], so that a nil and an empty collection    *)
(* are two values, as they are in Go.                                      *)
(***************************************************************************)
EXTENDS Integers, Sequences, FiniteSets, TLC

VARIABLES
    mgr,      \* the *Manager the caller holds (NilManager before construction)
    files,    \* the key files on disk: path -> PEM text or NoFile
    known,    \* the RSA key pairs that exist so far
    now,      \* the wall clock, in seconds
    rec,      \* the caller's License record (passed by pointer to GenerateLicense)
    sl,       \* the SignedLicense the caller holds (NoLicense when none)
    ret,      \* what the last call returned
    arg,      \* history: what the last call was given
    orig,     \* history: sl as GenerateLicense returned it
    frac,     \* the wall clock's part of a second, in ticks
    lfile,    \* the license file on disk
    obs,      \* what the last query or export answered
    shares,   \* the fields of sl.Data whose storage is the storage of rec's field
    th        \* the goroutines inside a call on the Manager: their locals

vars == <<mgr, files, known, now, rec, sl, ret, arg, orig, frac, lfile, obs,
          shares, th>>

-----------------------------------------------------------------------------
(* Bounds of the model *)

MaxSec == 3        \* the clock runs from second 1 to second MaxSec
MaxKeys == 2       \* key pairs that can exist (one is there at the start)
TicksPerSec == 2   \* the clock's resolution: ticks in a second
MaxServices == 2   \* services a Builder is given one by one

-----------------------------------------------------------------------------
(* Errors and constants: licenser.go lines 35-55 *)

ErrInvalidPrivateKey     == "invalid private key"
ErrInvalidPublicKey      == "invalid public key"
ErrNoPublicKey           == "no public key provided"
ErrLicenseExpired        == "license has expired"
ErrInvalidSignature      == "invalid signature"
ErrSignatureVerification == "signature verification failed"
ErrGeneratorModeRequired == "generator mode is required"
ErrCustomerRequired      == "customer name is required"
ErrAppIDRequired         == "application ID is required"
ErrNoServicesAllowed     == "at least one service must be allowed"

DefaultKeySize == 2048

\* errors of the libraries the package calls (crypto/x509, os)
X509Error == "x509: failed to parse key"
OsError   == "os: cannot read file"

\* an error value: the sentinel (or library error) at the root of the chain and
\* the text fmt.Errorf wrapped around it; NoError is nil
Error(wrap, cause) == [wrap |-> wrap, cause |-> cause]
NoError == Error("", "")

-----------------------------------------------------------------------------
(* Keys, PEM texts, key files *)

Key(id, bits) == [id |-> id, bits |-> bits]
NoKey == Key(0, 0)                     \* a nil key pointer

ExternalKey == Key(1, DefaultKeySize)  \* a key pair made outside the package

PrivPEM(k) == [kind |-> "RSA PRIVATE KEY", key |-> k]   \* PKCS#1 block
PubPEM(k)  == [kind |-> "PUBLIC KEY", key |-> k]        \* PKIX block
\* a PKIX block that holds an ECDSA public key
ECPubPEM   == [kind |-> "PUBLIC KEY (ECDSA)", key |-> NoKey]
EmptyText  == [kind |-> "", key |-> NoKey]              \* the string ""
Garbage    == [kind |-> "garbage", key |-> NoKey]       \* text holding no PEM block
NoFile     == [kind |-> "ENOENT", key |-> NoKey]        \* the path names no file

PrivatePath == "private.pem"
PublicPath  == "public.pem"
NoPath      == ""

\* pem.Decode finds a block
IsPEMBlock(text) ==
    text.kind \in {"RSA PRIVATE KEY", "PUBLIC KEY", "PUBLIC KEY (ECDSA)"}

\* os.ReadFile
ReadFile(fs, path) ==
    IF path \in DOMAIN fs /\ fs[path] # NoFile
    THEN [data |-> fs[path], err |-> ""]
    ELSE [data |-> EmptyText, err |-> OsError]

parsePrivateKeyFromPEM(pemData) ==
    IF ~IsPEMBlock(pemData)
    THEN [key |-> NoKey, err |-> ErrInvalidPrivateKey]
    ELSE IF pemData.kind = "RSA PRIVATE KEY"        \* x509.ParsePKCS1PrivateKey
         THEN [key |-> pemData.key, err |-> ""]
         ELSE [key |-> NoKey, err |-> X509Error]

parsePublicKeyFromPEM(pemData) ==
    IF ~IsPEMBlock(pemData)
    THEN [key |-> NoKey, err |-> ErrInvalidPublicKey]
    ELSE IF pemData.kind = "PUBLIC KEY"             \* x509.ParsePKIXPublicKey
         THEN [key |-> pemData.key, err |-> ""]
         ELSE IF pemData.kind = "PUBLIC KEY (ECDSA)" \* pub.(*rsa.PublicKey) fails
         THEN [key |-> NoKey, err |-> ErrInvalidPublicKey]
         ELSE [key |-> NoKey, err |-> X509Error]

loadPrivateKeyFromFile(fs, filePath) ==
    LET f == ReadFile(fs, filePath)
    IN  IF f.err # "" THEN [key |-> NoKey, err |-> f.err]
        ELSE parsePrivateKeyFromPEM(f.data)

loadPublicKeyFromFile(fs, filePath) ==
    LET f == ReadFile(fs, filePath)
    IN  IF f.err # "" THEN [key |-> NoKey, err |-> f.err]
        ELSE parsePublicKeyFromPEM(f.data)

-----------------------------------------------------------------------------
(* Config and Manager *)

Config(privPath, privPEM, pubPath, pubPEM, keySize, generatorMode) ==
    [PrivateKeyPath |-> privPath, PrivateKeyPEM |-> privPEM,
     PublicKeyPath |-> pubPath, PublicKeyPEM |-> pubPEM,
     KeySize |-> keySize, GeneratorMode |-> generatorMode]

ZeroConfig == Config(NoPath, EmptyText, NoPath, EmptyText, 0, FALSE)

Manager(priv, pub, config) ==
    [isNil |-> FALSE, privateKey |-> priv, publicKey |-> pub, config |-> config]

NilManager ==
    [isNil |-> TRUE, privateKey |-> NoKey, publicKey |-> NoKey, config |-> ZeroConfig]

\* the key size NewManager stores in m.config (lines 137-139)
ConfiguredKeySize(config) ==
    IF config.KeySize = 0 THEN DefaultKeySize ELSE config.KeySize

\* key resolution with the file path tried before the PEM text
ResolvePrivateKey_PathFirst(config, fs, freshId) ==
    IF config.PrivateKeyPath # NoPath
    THEN loadPrivateKeyFromFile(fs, config.PrivateKeyPath)
    ELSE IF config.PrivateKeyPEM # EmptyText
         THEN parsePrivateKeyFromPEM(config.PrivateKeyPEM)
         ELSE [key |-> Key(freshId, ConfiguredKeySize(config)), err |-> ""]

\* the private key of generator mode (lines 145-152); freshId is the identity of
\* the pair rsa.GenerateKey would make
ResolvePrivateKey(config, fs, freshId) ==
    IF config.PrivateKeyPEM # EmptyText
    THEN parsePrivateKeyFromPEM(config.PrivateKeyPEM)
    ELSE IF config.PrivateKeyPath # NoPath
         THEN loadPrivateKeyFromFile(fs, config.PrivateKeyPath)
         ELSE [key |-> Key(freshId, ConfiguredKeySize(config)), err |-> ""]

\* the separately supplied public key with the file path tried before the text
ResolvePublicKey_PathFirst(config, fs) ==
    IF config.PublicKeyPath # NoPath
    THEN loadPublicKeyFromFile(fs, config.PublicKeyPath)
         @@ [absent |-> FALSE, wrap |-> "failed to load public key"]
    ELSE IF config.PublicKeyPEM # EmptyText
         THEN parsePublicKeyFromPEM(config.PublicKeyPEM)
              @@ [absent |-> FALSE, wrap |-> "failed to parse public key"]
         ELSE [key |-> NoKey, err |-> "", absent |-> TRUE, wrap |-> ""]

\* the separately supplied public key (lines 162-172); absent = TRUE when none is
ResolvePublicKey(config, fs) ==
    IF config.PublicKeyPEM # EmptyText
    THEN parsePublicKeyFromPEM(config.PublicKeyPEM)
         @@ [absent |-> FALSE, wrap |-> "failed to parse public key"]
    ELSE IF config.PublicKeyPath # NoPath
         THEN loadPublicKeyFromFile(fs, config.PublicKeyPath)
              @@ [absent |-> FALSE, wrap |-> "failed to load public key"]
         ELSE [key |-> NoKey, err |-> "", absent |-> TRUE, wrap |-> ""]

\* NewManager without line 158: the public key is never derived
NewManager_PublicNotDerived(config, fs, freshId) ==
    LET stored == [config EXCEPT !.KeySize = ConfiguredKeySize(config)]
        priv   == IF config.GeneratorMode
                  THEN ResolvePrivateKey(config, fs, freshId)
                  ELSE [key |-> NoKey, err |-> ""]
        pub    == ResolvePublicKey(config, fs)
        pubKey == pub.key
    IN  IF priv.err # ""
        THEN [m |-> NilManager, err |-> Error("failed to setup private key", priv.err)]
        ELSE IF pub.err # ""
        THEN [m |-> NilManager, err |-> Error(pub.wrap, pub.err)]
        ELSE IF pubKey = NoKey
        THEN [m |-> NilManager, err |-> Error("", ErrNoPublicKey)]
        ELSE [m |-> Manager(priv.key, pubKey, stored), err |-> NoError]

\* NewManager without lines 174-176: a Manager with no public key is returned
NewManager_NoPublicKeyCheck(config, fs, freshId) ==
    LET stored == [config EXCEPT !.KeySize = ConfiguredKeySize(config)]
        priv   == IF config.GeneratorMode
                  THEN ResolvePrivateKey(config, fs, freshId)
                  ELSE [key |-> NoKey, err |-> ""]
        pub    == ResolvePublicKey(config, fs)
        pubKey == IF pub.absent THEN priv.key ELSE pub.key
    IN  IF priv.err # ""
        THEN [m |-> NilManager, err |-> Error("failed to setup private key", priv.err)]
        ELSE IF pub.err # ""
        THEN [m |-> NilManager, err |-> Error(pub.wrap, pub.err)]
        ELSE [m |-> Manager(priv.key, pubKey, stored), err |-> NoError]

\* NewManager resolving the private key in validator mode too, when one is
\* supplied
NewManager_PrivateInValidatorMode(config, fs, freshId) ==
    LET stored == [config EXCEPT !.KeySize = ConfiguredKeySize(config)]
        priv   == IF config.GeneratorMode \/ config.PrivateKeyPEM # EmptyText
                     \/ config.PrivateKeyPath # NoPath
                  THEN ResolvePrivateKey(config, fs, freshId)
                  ELSE [key |-> NoKey, err |-> ""]
        pub    == ResolvePublicKey(config, fs)
        pubKey == IF pub.absent THEN priv.key ELSE pub.key
    IN  IF priv.err # ""
        THEN [m |-> NilManager, err |-> Error("failed to setup private key", priv.err)]
        ELSE IF pub.err # ""
        THEN [m |-> NilManager, err |-> Error(pub.wrap, pub.err)]
        ELSE IF pubKey = NoKey
        THEN [m |-> NilManager, err |-> Error("", ErrNoPublicKey)]
        ELSE [m |-> Manager(priv.key, pubKey, stored), err |-> NoError]

\* NewManager: [m, err]
NewManager(config, fs, freshId) ==
    LET stored == [config EXCEPT !.KeySize = ConfiguredKeySize(config)]
        priv   == IF config.GeneratorMode
                  THEN ResolvePrivateKey(config, fs, freshId)
                  ELSE [key |-> NoKey, err |-> ""]
        pub    == ResolvePublicKey(config, fs)
        pubKey == IF pub.absent THEN priv.key ELSE pub.key
    IN  IF priv.err # ""
        THEN [m |-> NilManager, err |-> Error("failed to setup private key", priv.err)]
        ELSE IF pub.err # ""
        THEN [m |-> NilManager, err |-> Error(pub.wrap, pub.err)]
        ELSE IF pubKey = NoKey
        THEN [m |-> NilManager, err |-> Error("", ErrNoPublicKey)]
        ELSE [m |-> Manager(priv.key, pubKey, stored), err |-> NoError]

-----------------------------------------------------------------------------
(* License, Service, SignedLicense, ValidationResult: lines 57-119 *)

GoMap(kv)  == [isNil |-> FALSE, kv |-> kv]
EmptyKV    == [k \in {} |-> 0]
NilMap     == [isNil |-> TRUE, kv |-> EmptyKV]       \* a nil map
EmptyMap   == GoMap(EmptyKV)                          \* make(map[...]...)
MapLen(m)  == Cardinality(DOMAIN m.kv)

GoSlice(items) == [isNil |-> FALSE, items |-> items]
NilSlice   == [isNil |-> TRUE, items |-> <<>>]        \* a nil slice
EmptySlice == GoSlice(<<>>)                           \* make([]Service, 0)
SliceLen(s) == Len(s.items)

Service(id, name) ==
    [ID |-> id, Name |-> name, Description |-> "", Metadata |-> NilMap]

License(customer, appID, services, issuedAt, expiresAt) ==
    [Customer |-> customer, AppID |-> appID, Services |-> services,
     Limits |-> NilMap, Features |-> NilMap,
     IssuedAt |-> issuedAt, ExpiresAt |-> expiresAt,
     Metadata |-> NilMap, Version |-> "", Environment |-> ""]

ZeroLicense == License("", "", NilSlice, 0, 0)

\* time.Now().Unix() at instant t of the clock
Unix(t) == t

-----------------------------------------------------------------------------
(* encoding/json on License, following the struct tags of lines 58-77 *)

\* a member tagged omitempty is left out when its value is empty (false, 0, "",
\* a nil pointer, an empty map or slice); an omitted member reads as `zero`
OmitEmpty(isEmpty, value, zero) ==
    IF isEmpty THEN [present |-> FALSE, value |-> zero]
    ELSE [present |-> TRUE, value |-> value]

\* the Go string "caf\xe9" (Latin-1 bytes), and the valid string that has
\* U+FFFD in the place of its last byte
BadUTF8  == "caf<E9>"
Replaced == "caf<U+FFFD>"

\* a JSON string as json.Marshal writes it: a byte that is not UTF-8 becomes
\* the six characters of the escape \ufffd, while the rune U+FFFD of a valid
\* string is written as it is
EncodeString(s) ==
    IF s = BadUTF8 THEN [chars |-> Replaced, escaped |-> TRUE]
    ELSE [chars |-> s, escaped |-> FALSE]

\* the Go string json.Unmarshal reads from a JSON string
DecodeString(j) == j.chars

MarshalService(s) ==
    [id |-> EncodeString(s.ID), name |-> EncodeString(s.Name),
     description |-> OmitEmpty(s.Description = "", EncodeString(s.Description),
                               EncodeString("")),
     metadata |-> OmitEmpty(MapLen(s.Metadata) = 0, s.Metadata.kv, EmptyKV)]

\* a slice marshals as an array, a nil slice as null
MarshalServices(sv) ==
    [null |-> sv.isNil,
     array |-> [i \in 1..Len(sv.items) |-> MarshalService(sv.items[i])]]

\* json.Marshal(license): the bytes that are signed and verified
Marshal(d) ==
    [customer |-> EncodeString(d.Customer),
     app_id |-> EncodeString(d.AppID),
     services |-> MarshalServices(d.Services),
     limits |-> OmitEmpty(MapLen(d.Limits) = 0, d.Limits.kv, EmptyKV),
     features |-> OmitEmpty(MapLen(d.Features) = 0, d.Features.kv, EmptyKV),
     issued_at |-> d.IssuedAt,
     expires_at |-> OmitEmpty(d.ExpiresAt = 0, d.ExpiresAt, 0),
     metadata |-> OmitEmpty(MapLen(d.Metadata) = 0, d.Metadata.kv, EmptyKV),
     version |-> OmitEmpty(d.Version = "", EncodeString(d.Version),
                           EncodeString("")),
     environment |-> OmitEmpty(d.Environment = "", EncodeString(d.Environment),
                               EncodeString(""))]

-----------------------------------------------------------------------------
(* Signatures: lines 543-563 *)

Sum256(data) == [sha256 |-> data]

\* a signature text: whether it is base64, and (when it is) the key that made
\* the signature and the digest it was made over
SigText(b64, key, digest) == [b64 |-> b64, key |-> key, digest |-> digest]
EmptySig  == SigText(TRUE, NoKey, Sum256(Marshal(ZeroLicense)))    \* ""
NotBase64 == SigText(FALSE, NoKey, Sum256(Marshal(ZeroLicense)))   \* "%%%"

RsaVerificationError == "crypto/rsa: verification error"

\* rsa.SignPKCS1v15 followed by base64.StdEncoding.EncodeToString
signData(m, data) ==
    [signature |-> SigText(TRUE, m.privateKey, Sum256(data)), err |-> ""]

\* verifySignature with a check that no longer looks at the signed bytes
verifySignature_KeyOnly(m, data, signatureStr) ==
    IF ~signatureStr.b64 THEN ErrInvalidSignature
    ELSE IF signatureStr.key = m.publicKey THEN "" ELSE RsaVerificationError

\* the error verifySignature returns ("" is nil)
verifySignature(m, data, signatureStr) ==
    IF ~signatureStr.b64 THEN ErrInvalidSignature
    ELSE IF signatureStr.key = m.publicKey /\ signatureStr.digest = Sum256(data)
         THEN ""
         ELSE RsaVerificationError

-----------------------------------------------------------------------------
(* SignedLicense and ValidationResult *)

SignedLicense(data, signature, createdAt, algorithm) ==
    [isNil |-> FALSE, Data |-> data, Signature |-> signature, KeyID |-> "",
     Algorithm |-> algorithm, CreatedAt |-> createdAt]

NoLicense ==
    [isNil |-> TRUE, Data |-> ZeroLicense, Signature |-> EmptySig, KeyID |-> "",
     Algorithm |-> "", CreatedAt |-> 0]

ValidationResult(valid, errors, warnings) ==
    [isNil |-> FALSE, Valid |-> valid, Errors |-> errors, Warnings |-> warnings]

NoResult == [isNil |-> TRUE, Valid |-> FALSE, Errors |-> <<>>, Warnings |-> <<>>]

-----------------------------------------------------------------------------
(* `Data: *license` at line 214 copies the License struct.  A Go map or     *)
(* slice value is a reference: the copy's Services, Limits, Features and    *)
(* Metadata are the storage of the caller's, unless the caller's is nil.    *)

ReferenceFields == {"Services", "Limits", "Features", "Metadata"}

SharedAfterCopy(license) == {f \in ReferenceFields : ~license[f].isNil}

\* m[key] = value on a map that is not nil
SetEntry(m, key, value) ==
    [m EXCEPT !.kv = [k \in DOMAIN m.kv \cup {key} |->
                        IF k = key THEN value ELSE m.kv[k]]]

\* s[i].Name = name on a slice that has an element i
SetName(s, i, name) == [s EXCEPT !.items[i].Name = name]

-----------------------------------------------------------------------------
(* Manager.GenerateLicense: lines 182-219 *)

\* GenerateLicense without the generator-mode check
GenerateLicense_NoModeCheck(m, license, t, u) ==
    LET fail(e) == [sl |-> NoLicense, err |-> Error("", e),
                    license |-> license, m |-> m]
        stamped == IF license.IssuedAt = 0
                   THEN [license EXCEPT !.IssuedAt = Unix(t)]
                   ELSE license
        signed  == signData(m, Marshal(stamped))
    IN  IF license.Customer = "" THEN fail(ErrCustomerRequired)
        ELSE IF license.AppID = "" THEN fail(ErrAppIDRequired)
        ELSE IF SliceLen(license.Services) = 0 THEN fail(ErrNoServicesAllowed)
        ELSE [sl |-> SignedLicense(stamped, signed.signature, Unix(u), "RS256"),
              err |-> NoError, license |-> stamped, m |-> m]

\* GenerateLicense without the application-id check
GenerateLicense_NoAppIDCheck(m, license, t, u) ==
    LET fail(e) == [sl |-> NoLicense, err |-> Error("", e),
                    license |-> license, m |-> m]
        stamped == IF license.IssuedAt = 0
                   THEN [license EXCEPT !.IssuedAt = Unix(t)]
                   ELSE license
        signed  == signData(m, Marshal(stamped))
    IN  IF ~m.config.GeneratorMode THEN fail(ErrGeneratorModeRequired)
        ELSE IF license.Customer = "" THEN fail(ErrCustomerRequired)
        ELSE IF SliceLen(license.Services) = 0 THEN fail(ErrNoServicesAllowed)
        ELSE [sl |-> SignedLicense(stamped, signed.signature, Unix(u), "RS256"),
              err |-> NoError, license |-> stamped, m |-> m]

\* GenerateLicense with the issued-at stamp applied after serialization
GenerateLicense_SignsBeforeStamp(m, license, t, u) ==
    LET fail(e) == [sl |-> NoLicense, err |-> Error("", e),
                    license |-> license, m |-> m]
        stamped == IF license.IssuedAt = 0
                   THEN [license EXCEPT !.IssuedAt = Unix(t)]
                   ELSE license
        signed  == signData(m, Marshal(license))
    IN  IF ~m.config.GeneratorMode THEN fail(ErrGeneratorModeRequired)
        ELSE IF license.Customer = "" THEN fail(ErrCustomerRequired)
        ELSE IF license.AppID = "" THEN fail(ErrAppIDRequired)
        ELSE IF SliceLen(license.Services) = 0 THEN fail(ErrNoServicesAllowed)
        ELSE [sl |-> SignedLicense(stamped, signed.signature, Unix(u), "RS256"),
              err |-> NoError, license |-> stamped, m |-> m]

\* GenerateLicense with the issued-at stamp applied to every record
GenerateLicense_AlwaysStamps(m, license, t, u) ==
    LET fail(e) == [sl |-> NoLicense, err |-> Error("", e),
                    license |-> license, m |-> m]
        stamped == [license EXCEPT !.IssuedAt = Unix(t)]
        signed  == signData(m, Marshal(stamped))
    IN  IF ~m.config.GeneratorMode THEN fail(ErrGeneratorModeRequired)
        ELSE IF license.Customer = "" THEN fail(ErrCustomerRequired)
        ELSE IF license.AppID = "" THEN fail(ErrAppIDRequired)
        ELSE IF SliceLen(license.Services) = 0 THEN fail(ErrNoServicesAllowed)
        ELSE [sl |-> SignedLicense(stamped, signed.signature, Unix(u), "RS256"),
              err |-> NoError, license |-> stamped, m |-> m]

\* the call's whole effect when the clock reads t at line 200 and u at line
\* 216: the returned pair (sl, err), the caller's record behind the pointer
\* after the call, and the Manager after it
GenerateLicense(m, license, t, u) ==
    LET fail(e) == [sl |-> NoLicense, err |-> Error("", e),
                    license |-> license, m |-> m]
        stamped == IF license.IssuedAt = 0
                   THEN [license EXCEPT !.IssuedAt = Unix(t)]
                   ELSE license
        signed  == signData(m, Marshal(stamped))
    IN  IF ~m.config.GeneratorMode THEN fail(ErrGeneratorModeRequired)
        ELSE IF license.Customer = "" THEN fail(ErrCustomerRequired)
        ELSE IF license.AppID = "" THEN fail(ErrAppIDRequired)
        ELSE IF SliceLen(license.Services) = 0 THEN fail(ErrNoServicesAllowed)
        ELSE [sl |-> SignedLicense(stamped, signed.signature, Unix(u), "RS256"),
              err |-> NoError, license |-> stamped, m |-> m]

-----------------------------------------------------------------------------
(* Manager.ValidateLicense: lines 222-262 *)

\* append(result.Errors, msg) when the check failed
AppendIf(errors, failed, msg) == IF failed THEN Append(errors, msg) ELSE errors

\* the expiry check with the boundary instant counted as expired
ExpiredAt_Inclusive(d, t) == d.ExpiresAt > 0 /\ Unix(t) >= d.ExpiresAt

\* the expiry check of line 240
ExpiredAt(d, t) == d.ExpiresAt > 0 /\ Unix(t) > d.ExpiresAt

\* ValidateLicense reporting only the first missing field, as GenerateLicense
\* and Builder.Validate do
ValidateLicense_FirstMissingField(m, signedLicense, t) ==
    LET d  == signedLicense.Data
        e1 == AppendIf(<<>>,
                 verifySignature(m, Marshal(d), signedLicense.Signature) # "",
                 "signature verification failed")
        e2 == AppendIf(e1, ExpiredAt(d, t), "license has expired")
        e5 == IF d.Customer = "" THEN Append(e2, "customer is required")
              ELSE IF d.AppID = "" THEN Append(e2, "app ID is required")
              ELSE AppendIf(e2, SliceLen(d.Services) = 0,
                            "at least one service is required")
    IN  [result |-> ValidationResult(e5 = <<>>, e5, <<>>),
         signedLicense |-> signedLicense, m |-> m]

\* ValidateLicense whose expiry branch forgets result.Valid = false
ValidateLicense_ExpiryKeepsValid(m, signedLicense, t) ==
    LET d  == signedLicense.Data
        e1 == AppendIf(<<>>,
                 verifySignature(m, Marshal(d), signedLicense.Signature) # "",
                 "signature verification failed")
        e2 == AppendIf(e1, ExpiredAt(d, t), "license has expired")
        e3 == AppendIf(e2, d.Customer = "", "customer is required")
        e4 == AppendIf(e3, d.AppID = "", "app ID is required")
        e5 == AppendIf(e4, SliceLen(d.Services) = 0, "at least one service is required")
        valid == e1 = <<>> /\ d.Customer # "" /\ d.AppID # ""
                    /\ SliceLen(d.Services) # 0
    IN  [result |-> ValidationResult(valid, e5, <<>>),
         signedLicense |-> signedLicense, m |-> m]

\* ValidateLicense that replaces a nil Limits map of its input by an empty one
ValidateLicense_NormalizesInput(m, signedLicense, t) ==
    LET d  == signedLicense.Data
        e1 == AppendIf(<<>>,
                 verifySignature(m, Marshal(d), signedLicense.Signature) # "",
                 "signature verification failed")
        e2 == AppendIf(e1, ExpiredAt(d, t), "license has expired")
        e3 == AppendIf(e2, d.Customer = "", "customer is required")
        e4 == AppendIf(e3, d.AppID = "", "app ID is required")
        e5 == AppendIf(e4, SliceLen(d.Services) = 0, "at least one service is required")
    IN  [result |-> ValidationResult(e5 = <<>>, e5, <<>>),
         signedLicense |-> IF d.Limits.isNil
                           THEN [signedLicense EXCEPT !.Data.Limits = EmptyMap]
                           ELSE signedLicense,
         m |-> m]

\* ValidateLicense that also asks for the algorithm tag GenerateLicense writes
ValidateLicense_ChecksAlgorithm(m, signedLicense, t) ==
    LET d  == signedLicense.Data
        e0 == AppendIf(<<>>, signedLicense.Algorithm # "RS256",
                       "unsupported algorithm")
        e1 == AppendIf(e0,
                 verifySignature(m, Marshal(d), signedLicense.Signature) # "",
                 "signature verification failed")
        e2 == AppendIf(e1, ExpiredAt(d, t), "license has expired")
        e3 == AppendIf(e2, d.Customer = "", "customer is required")
        e4 == AppendIf(e3, d.AppID = "", "app ID is required")
        e5 == AppendIf(e4, SliceLen(d.Services) = 0, "at least one service is required")
    IN  [result |-> ValidationResult(e5 = <<>>, e5, <<>>),
         signedLicense |-> signedLicense, m |-> m]

\* ValidateLicense passing on what verifySignature returned
ValidateLicense_TellsDecodeFailure(m, signedLicense, t) ==
    LET d  == signedLicense.Data
        v  == verifySignature(m, Marshal(d), signedLicense.Signature)
        e1 == AppendIf(<<>>, v # "", v)
        e2 == AppendIf(e1, ExpiredAt(d, t), "license has expired")
        e3 == AppendIf(e2, d.Customer = "", "customer is required")
        e4 == AppendIf(e3, d.AppID = "", "app ID is required")
        e5 == AppendIf(e4, SliceLen(d.Services) = 0, "at least one service is required")
    IN  [result |-> ValidationResult(e5 = <<>>, e5, <<>>),
         signedLicense |-> signedLicense, m |-> m]

\* the call's whole effect at clock instant t: the returned result, the
\* SignedLicense behind the pointer after the call, and the Manager after it
ValidateLicense(m, signedLicense, t) ==
    LET d  == signedLicense.Data
        e1 == AppendIf(<<>>,
                 verifySignature(m, Marshal(d), signedLicense.Signature) # "",
                 "signature verification failed")
        e2 == AppendIf(e1, ExpiredAt(d, t), "license has expired")
        e3 == AppendIf(e2, d.Customer = "", "customer is required")
        e4 == AppendIf(e3, d.AppID = "", "app ID is required")
        e5 == AppendIf(e4, SliceLen(d.Services) = 0, "at least one service is required")
    IN  [result |-> ValidationResult(e5 = <<>>, e5, <<>>),
         signedLicense |-> signedLicense, m |-> m]

\* Builder.Validate (lines 525-539) on the license being built
BuilderValidate(license) ==
    IF license.Customer = "" THEN Error("", ErrCustomerRequired)
    ELSE IF license.AppID = "" THEN Error("", ErrAppIDRequired)
    ELSE IF SliceLen(license.Services) = 0 THEN Error("", ErrNoServicesAllowed)
    ELSE NoError


\* NewBuilder: the record a Builder starts with (lines 420-430)
NewBuilder ==
    [ZeroLicense EXCEPT !.Services = EmptySlice, !.Limits = EmptyMap,
                        !.Features = EmptyMap, !.Metadata = EmptyMap]

\* WithService: append(b.license.Services, service)
WithService(license, service) ==
    [license EXCEPT !.Services = GoSlice(Append(license.Services.items, service))]

\* WithExpirationTime: expiresAt.Unix() of the instant at tick f of second t
WithExpirationTime(license, t, f) ==
    [license EXCEPT !.ExpiresAt = (t * TicksPerSec + f) \div TicksPerSec]

\* WithExpirationDuration: time.Now().Add(duration).Unix(), duration in ticks
WithExpirationDuration(license, duration, t, f) ==
    [license EXCEPT !.ExpiresAt =
        (t * TicksPerSec + f + duration) \div TicksPerSec]

\* Build: the builder's record after the call, which is also the copy returned
Build(license, t) ==
    IF license.IssuedAt = 0 THEN [license EXCEPT !.IssuedAt = Unix(t)]
    ELSE license

-----------------------------------------------------------------------------
(* What a call returns, as the caller sees it *)

Return(op, err, lic, res) == [op |-> op, err |-> err, lic |-> lic, res |-> res]

\* no call has returned since the caller last did something else
NoReturn == Return("", NoError, NoLicense, NoResult)

\* a nil-pointer dereference inside the call
Panic == "panic: nil pointer dereference"

\* the Config given to NewManager; the License behind the pointer given to
\* GenerateLicense as it was before the call, and the clock when the call
\* began
Arg(config, license, t) == [config |-> config, license |-> license, t |-> t]
NoArg == Arg(ZeroConfig, ZeroLicense, 0)

-----------------------------------------------------------------------------
(* License files: lines 264-300 *)

\* json.MarshalIndent(signedLicense), following the struct tags of lines 80-86
MarshalSigned(s) ==
    [data |-> Marshal(s.Data),
     signature |-> s.Signature,
     key_id |-> OmitEmpty(s.KeyID = "", s.KeyID, ""),
     algorithm |-> OmitEmpty(s.Algorithm = "", s.Algorithm, ""),
     created_at |-> s.CreatedAt]

\* the bytes of a license file: a JSON document of a SignedLicense, the JSON
\* object {}, bytes cut short (not JSON), or no file at all
JSONFile(doc)   == [kind |-> "json", doc |-> doc]
EmptyObject     == [kind |-> "{}", doc |-> MarshalSigned(NoLicense)]
Truncated       == [kind |-> "truncated", doc |-> MarshalSigned(NoLicense)]
NoLicenseFile   == [kind |-> "ENOENT", doc |-> MarshalSigned(NoLicense)]

JsonError == "unexpected end of JSON input"

\* json.Unmarshal of a map member: an absent member leaves the map nil
UnmarshalMap(member) ==
    IF member.present THEN GoMap(member.value) ELSE NilMap

UnmarshalService(j) ==
    [ID |-> DecodeString(j.id), Name |-> DecodeString(j.name),
     Description |-> DecodeString(j.description.value),
     Metadata |-> UnmarshalMap(j.metadata)]

UnmarshalServices(j) ==
    IF j.null THEN NilSlice
    ELSE GoSlice([i \in 1..Len(j.array) |-> UnmarshalService(j.array[i])])

UnmarshalLicense(j) ==
    [Customer |-> DecodeString(j.customer), AppID |-> DecodeString(j.app_id),
     Services |-> UnmarshalServices(j.services),
     Limits |-> UnmarshalMap(j.limits), Features |-> UnmarshalMap(j.features),
     IssuedAt |-> j.issued_at, ExpiresAt |-> j.expires_at.value,
     Metadata |-> UnmarshalMap(j.metadata),
     Version |-> DecodeString(j.version.value),
     Environment |-> DecodeString(j.environment.value)]

\* json.Unmarshal(data, &signedLicense): [v, err]
Unmarshal(data) ==
    CASE data.kind = "json" ->
            [v |-> [isNil |-> FALSE,
                    Data |-> UnmarshalLicense(data.doc.data),
                    Signature |-> data.doc.signature,
                    KeyID |-> data.doc.key_id.value,
                    Algorithm |-> data.doc.algorithm.value,
                    CreatedAt |-> data.doc.created_at],
             err |-> ""]
      [] data.kind = "{}" ->
            [v |-> SignedLicense(ZeroLicense, EmptySig, 0, ""), err |-> ""]
      [] OTHER -> [v |-> NoLicense, err |-> JsonError]

\* SaveLicense: [file, err]
SaveLicense(m, signedLicense, file) ==
    [file |-> JSONFile(MarshalSigned(signedLicense)), err |-> NoError]

\* LoadLicense: [sl, err]
LoadLicense(m, file) ==
    IF file.kind = "ENOENT"
    THEN [sl |-> NoLicense, err |-> Error("failed to read license file", OsError)]
    ELSE LET u == Unmarshal(file)
         IN  IF u.err # ""
             THEN [sl |-> NoLicense,
                   err |-> Error("failed to unmarshal license", u.err)]
             ELSE [sl |-> u.v, err |-> NoError]

\* LoadAndValidateLicense that turns an invalid license into an error
LoadAndValidateLicense_InvalidIsError(m, file, t) ==
    LET l == LoadLicense(m, file)
        v == ValidateLicense(m, l.sl, t).result
    IN  IF l.err # NoError
        THEN [sl |-> NoLicense, result |-> NoResult, err |-> l.err]
        ELSE IF ~v.Valid
        THEN [sl |-> NoLicense, result |-> NoResult,
              err |-> Error("", ErrSignatureVerification)]
        ELSE [sl |-> l.sl, result |-> v, err |-> NoError]

\* LoadAndValidateLicense: [sl, result, err]
LoadAndValidateLicense(m, file, t) ==
    LET l == LoadLicense(m, file)
    IN  IF l.err # NoError
        THEN [sl |-> NoLicense, result |-> NoResult, err |-> l.err]
        ELSE [sl |-> l.sl, result |-> ValidateLicense(m, l.sl, t).result,
              err |-> NoError]

-----------------------------------------------------------------------------
(* Key export: lines 319-364 *)

\* ExportPrivateKey: the PEM text, or a panic when m.privateKey is nil
ExportPrivateKey(m) ==
    IF m.privateKey = NoKey THEN [text |-> EmptyText, panic |-> TRUE]
    ELSE [text |-> PrivPEM(m.privateKey), panic |-> FALSE]

\* ExportPublicKey: the PEM text
ExportPublicKey(m) == PubPEM(m.publicKey)

\* ExportKeys: [privateKey, publicKey, panic]; its err is always nil
ExportKeys(m) ==
    [privateKey |-> ExportPrivateKey(m).text, publicKey |-> ExportPublicKey(m),
     panic |-> ExportPrivateKey(m).panic]

\* SavePublicKey: [fs, err]
SavePublicKey(m, fs, filePath) ==
    IF m.publicKey = NoKey
    THEN [fs |-> fs, err |-> Error("", ErrNoPublicKey)]
    ELSE [fs |-> [fs EXCEPT ![filePath] = ExportPublicKey(m)], err |-> NoError]

-----------------------------------------------------------------------------
(* Expiry queries: lines 366-417 and 613-736.  An instant is a second t and *)
(* a tick f within it; a time.Duration is a number of ticks.                *)

StatusActive        == "active"
StatusExpired       == "expired"
LicenseExpired      == "License expired"
LicenseNeverExpired == "License never expired"

\* time.Until(time.Unix(expiresAt, 0)) at instant (t, f)
Until(expiresAt, t, f) == (expiresAt - t) * TicksPerSec - f

\* IsExpired that also expires in the second of expiry
IsExpired_Inclusive(m, license, t) ==
    license.ExpiresAt > 0 /\ Unix(t) >= license.ExpiresAt

IsExpired(m, license, t) ==
    license.ExpiresAt > 0 /\ Unix(t) > license.ExpiresAt

IsActive(m, license, t) == ~IsExpired(m, license, t)

CheckExpiration(m, license, t) ==
    IF IsExpired(m, license, t) THEN Error("", ErrLicenseExpired) ELSE NoError

\* a text: a fixed one, or the days, hours and minutes formatDuration prints
Text(s) == [text |-> s, days |-> 0, hours |-> 0, minutes |-> 0]
DurationText(days, hours, minutes) ==
    [text |-> "%dd %dh %dm", days |-> days, hours |-> hours, minutes |-> minutes]

formatDuration(d) ==
    IF d < 0 THEN Text(LicenseExpired)
    ELSE LET seconds == d \div TicksPerSec
             days    == (seconds \div 3600) \div 24
             hours   == (seconds \div 3600) % 24
             minutes == (seconds \div 60) % 60
         IN  IF days = 0 /\ hours = 0 /\ minutes = 0
             THEN Text("Less than 1 minute")
             ELSE DurationText(days, hours, minutes)

\* IsExpiringSoon with a strict comparison
IsExpiringSoon_Strict(license, within, t, f) ==
    IF license.ExpiresAt = 0 THEN FALSE
    ELSE Until(license.ExpiresAt, t, f) < within

IsExpiringSoon(license, within, t, f) ==
    IF license.ExpiresAt = 0 THEN FALSE
    ELSE Until(license.ExpiresAt, t, f) <= within

CalculateRemainingTime(expiresAt, t, f) ==
    IF expiresAt = 0 THEN 0
    ELSE IF Until(expiresAt, t, f) < 0 THEN 0
    ELSE Until(expiresAt, t, f)

\* FormatTimeUntilExpiry without the test for expiresAt = 0
FormatTimeUntilExpiry_NoPerpetual(expiresAt, t, f) ==
    IF CalculateRemainingTime(expiresAt, t, f) = 0 THEN Text(LicenseExpired)
    ELSE formatDuration(CalculateRemainingTime(expiresAt, t, f))

FormatTimeUntilExpiry(expiresAt, t, f) ==
    IF expiresAt = 0 THEN Text(LicenseNeverExpired)
    ELSE IF CalculateRemainingTime(expiresAt, t, f) = 0 THEN Text(LicenseExpired)
    ELSE formatDuration(CalculateRemainingTime(expiresAt, t, f))

GetLicenseStatus(license, t) ==
    IF license.ExpiresAt = 0 THEN StatusActive
    ELSE IF Unix(t) > license.ExpiresAt THEN StatusExpired
    ELSE StatusActive

\* GetLicenseInfo: the *LicenseInfo; ExpiresAt is a pointer
GetLicenseInfo(m, license, t, f) ==
    [Customer |-> license.Customer, AppID |-> license.AppID,
     IssuedAt |-> license.IssuedAt,
     ExpiresAt |-> [isNil |-> ~(license.ExpiresAt > 0), value |-> license.ExpiresAt],
     Status |-> IF license.ExpiresAt > 0 /\ IsExpired(m, license, t)
                THEN StatusExpired ELSE StatusActive,
     TimeUntilExpiry |->
        IF license.ExpiresAt > 0
        THEN IF IsExpired(m, license, t) THEN Text(LicenseExpired)
             ELSE formatDuration(Until(license.ExpiresAt, t, f))
        ELSE Text(LicenseNeverExpired),
     Services |-> license.Services, Limits |-> license.Limits,
     Features |-> license.Features, Metadata |-> license.Metadata,
     Version |-> license.Version, Environment |-> license.Environment]

\* the loops of lines 645-675 from element i on: byID and byName say which
\* fields of a service are compared
RECURSIVE ServiceLoop(_, _, _, _, _)
ServiceLoop(items, identifier, byID, byName, i) ==
    IF i > Len(items) THEN FALSE
    ELSE IF \/ byID /\ items[i].ID = identifier
            \/ byName /\ items[i].Name = identifier
         THEN TRUE
         ELSE ServiceLoop(items, identifier, byID, byName, i + 1)

\* HasService looking at the IDs only
HasService_IDOnly(license, identifier) ==
    ServiceLoop(license.Services.items, identifier, TRUE, FALSE, 1)

HasService(license, identifier) ==
    ServiceLoop(license.Services.items, identifier, TRUE, TRUE, 1)

HasServiceByID(license, serviceID) ==
    ServiceLoop(license.Services.items, serviceID, TRUE, FALSE, 1)

HasServiceByName(license, serviceName) ==
    ServiceLoop(license.Services.items, serviceName, FALSE, TRUE, 1)

\* what a query answered
Answer(op, value) == [op |-> op, value |-> value]
NoObs == Answer("", FALSE)

-----------------------------------------------------------------------------
(* Inputs *)

KeyPaths == {PrivatePath, PublicPath}

\* the PEM text of the public key the caller can export from its Manager
ExportedPublic == IF mgr.isNil THEN {} ELSE {PubPEM(mgr.publicKey)}

\* every configuration over the small input sets; a key size is given where
\* no private-key text is, the only configurations that can come to
\* rsa.GenerateKey
Configs ==
    { c \in { Config(pp, pt, qp, qt, ks, gm) :
                pp \in {NoPath, PrivatePath},
                pt \in {EmptyText, Garbage, PrivPEM(ExternalKey),
                        PubPEM(ExternalKey)},
                qp \in {NoPath, PublicPath},
                qt \in {EmptyText, Garbage, PubPEM(ExternalKey)}
                          \cup ExportedPublic,
                ks \in {0, 1024},
                gm \in BOOLEAN } :
        c.KeySize = 0 \/ c.PrivateKeyPEM = EmptyText }

\* the configurations that name no key file
LicConfigs ==
    { Config(NoPath, pt, NoPath, qt, 0, gm) :
        pt \in {EmptyText, PrivPEM(ExternalKey)},
        qt \in {EmptyText, PubPEM(ExternalKey)} \cup ExportedPublic,
        gm \in BOOLEAN }

\* key texts of every kind, for both keys, no key size
KeyTexts == {EmptyText, Garbage, PrivPEM(ExternalKey), PubPEM(ExternalKey), ECPubPEM}

ParseConfigs ==
    { Config(pp, pt, qp, qt, 0, gm) :
        pp \in {NoPath, PrivatePath}, pt \in KeyTexts,
        qp \in {NoPath, PublicPath}, qt \in KeyTexts,
        gm \in BOOLEAN }

\* a generator that makes its own key pair
QueryConfigs == {Config(NoPath, EmptyText, NoPath, EmptyText, 0, TRUE)}

Day == 24 * 3600

\* an expiry a day, an hour, a minute and a second away
FarExpiry == Day + 3600 + 61

\* expiry stamps: before the epoch, unset, within the clock's run, far away
Expiries == {-1, 0, 1, 2, 3, FarExpiry}

\* the windows given to IsExpiringSoon, in ticks
Windows == {-1, 0, 1, TicksPerSec, Day * TicksPerSec, 2 * Day * TicksPerSec}

\* the values the holder of a SignedLicense gives to the fields around Data
\* and Signature
WrapperValues ==
    [Algorithm |-> {"RS256", "none"},
     KeyID |-> {"", "key-1"},
     CreatedAt |-> {0, 1}]

\* service lists: none, one, two, two in the other order, one whose ID is
\* another's Name, one that differs in case only
ServiceLists ==
    {NilSlice, EmptySlice,
     GoSlice(<<Service("web-api", "Web API")>>),
     GoSlice(<<Service("web-api", "Web API"), Service("db", "Database")>>),
     GoSlice(<<Service("db", "Database"), Service("web-api", "Web API")>>),
     GoSlice(<<Service("Web API", "web-api"), Service("db", "db")>>),
     GoSlice(<<Service("WEB-API", "Web Api"), Service("web-api", "Database")>>)}

\* the identifiers asked for
Identifiers == {"web-api", "Web API", "WEB-API", "db", "Database", "none"}

OneService == GoSlice(<<Service("web-api", "Web API")>>)

\* complete records that expire at second 2, whose Limits map is nil, empty
\* or holds an entry, and one that never expires and whose customer name is
\* not UTF-8
FileRecords ==
    { [License("acme", "app", OneService, 0, 2) EXCEPT !.Limits = lm] :
        lm \in {NilMap, EmptyMap, GoMap([api_calls |-> 10000])} }
    \cup {License(BadUTF8, "app", OneService, 0, 0)}

\* the License records a caller starts with
Records ==
    { License(c, a, sv, ia, ea) :
        c \in {"", "acme"}, a \in {"", "app"},
        sv \in {NilSlice, EmptySlice, OneService},
        ia \in {0, 1}, ea \in {0, 2} }

\* the single-field changes a holder of a SignedLicense can make to its Data
FieldValues ==
    [Customer    |-> {"", "acme", "evil"},
     AppID       |-> {"", "app", "other"},
     Services    |-> {NilSlice, EmptySlice, OneService,
                      GoSlice(<<Service("web-api", "Web API"), Service("extra", "Extra")>>)},
     Limits      |-> {NilMap, EmptyMap, GoMap([api_calls |-> 10000]),
                      GoMap([api_calls |-> 99999])},
     Features    |-> {NilMap, EmptyMap, GoMap([analytics |-> TRUE])},
     IssuedAt    |-> {0, 1, 2},
     ExpiresAt   |-> {-1, 0, 1, 2, 3},
     Metadata    |-> {NilMap, EmptyMap, GoMap([tier |-> "gold"])},
     Version     |-> {"", "2.0"},
     Environment |-> {"", "production"}]

\* the values a holder of a SignedLicense gives, one after another, to the
\* fields of its Data that ValidateLicense tests
CheckedValues ==
    [Customer  |-> {"", "acme"},
     AppID     |-> {"", "app"},
     Services  |-> {NilSlice, EmptySlice, OneService},
     ExpiresAt |-> {1, 2}]

\* what the caller assigns to fields of its record after the call
AssignedValues ==
    [Customer  |-> {"acme", "evil"},
     ExpiresAt |-> {0, 2},
     Limits    |-> {NilMap, GoMap([api_calls |-> 99999])}]

\* what WithCustomer, WithAppID, WithServices, WithExpiration, WithVersion
\* and WithEnvironment are given
BuilderValues ==
    [Customer    |-> {"acme"},
     AppID       |-> {"app"},
     Services    |-> {OneService},
     ExpiresAt   |-> {2},
     Version     |-> {"2.0"},
     Environment |-> {"production"}]

\* the durations given to WithExpirationDuration, in ticks
Durations == {1, Day * TicksPerSec}

\* the entries the caller sets in the maps of its record
EntryValues ==
    [Limits   |-> {[key |-> "api_calls", value |-> 10000],
                   [key |-> "api_calls", value |-> 99999]},
     Features |-> {[key |-> "analytics", value |-> TRUE]},
     Metadata |-> {[key |-> "tier", value |-> "gold"]}]

\* the names the caller gives to the first service of its record
ServiceNames == {"Web API", "Renamed"}

\* complete records as a caller or the Builder makes them: maps nil, empty
\* (NewBuilder) or holding an entry
AliasRecords ==
    { [License("acme", "app", OneService, 0, 0)
          EXCEPT !.Limits = lm, !.Features = ft, !.Metadata = md] :
        lm \in {NilMap, GoMap([api_calls |-> 10000])},
        ft \in {NilMap, EmptyMap},
        md \in {NilMap, EmptyMap} }

\* the goroutines that call the Manager at the same time
Threads == {1, 2}

\* the locals of a goroutine at the start of a call: where it is in its call,
\* the call, the License its pointer leads to (the caller's shared record or
\* a record of its own), that record and the clock as they were when the call
\* began; then what it has read and computed so far: the clock reading of
\* line 200, the bytes and the signature, the copy of *license and the clock
\* reading of lines 213-218, and what the call returned
Locals(pc, op, ptr, own, entry, t0) ==
    [pc |-> pc, op |-> op, ptr |-> ptr, own |-> own, entry |-> entry,
     t0 |-> t0, stamp |-> 0, data |-> Marshal(ZeroLicense),
     signature |-> EmptySig, copy |-> ZeroLicense, created |-> 0,
     out |-> NoReturn]

\* a goroutine outside a call has no locals
Idle == [pc |-> "idle"]

\* the records the goroutines have signed: complete with and without an
\* issued-at, and one without customer
ConcRecords ==
    {License("acme", "app", OneService, ia, 0) : ia \in {0, 1}}
        \cup {License("", "app", OneService, 0, 0)}

-----------------------------------------------------------------------------
(* Actions *)

\* rsa.GenerateKey is reached: generator mode with no private key supplied
GeneratesKey(config) ==
    config.GeneratorMode /\ config.PrivateKeyPEM = EmptyText
        /\ config.PrivateKeyPath = NoPath

\* m, err := NewManager(config)
NewManagerCall(config) ==
    LET freshId == Cardinality(known) + 1
        r == NewManager(config, files, freshId)
    IN  /\ GeneratesKey(config) => freshId <= MaxKeys
        /\ mgr' = r.m
        /\ known' = known \cup ({r.m.privateKey} \ {NoKey})
        /\ ret' = Return("NewManager", r.err, NoLicense, NoResult)
        /\ arg' = Arg(config, ZeroLicense, 0)
        /\ obs' = NoObs
        /\ UNCHANGED <<files, now, rec, sl, orig, frac, lfile, shares, th>>

\* signedLicense, err := m.GenerateLicense(&license): the clock is read at
\* line 200 (second now) and again at line 216 (second u); nothing bounds the
\* time that passes between the two.  The time that passes is whole seconds,
\* as in Tick; parts of a second pass in SubTick.  A call that fails returns
\* before either reading.
GenerateLicenseCall ==
    \E u \in now..MaxSec :
    LET r == GenerateLicense(mgr, rec, now, u)
    IN  /\ ~mgr.isNil
        /\ r.err # NoError => u = now
        /\ now' = u
        /\ frac' = frac
        /\ mgr' = r.m
        /\ rec' = r.license
        /\ sl' = IF r.err = NoError THEN r.sl ELSE sl
        /\ orig' = IF r.err = NoError THEN r.sl ELSE orig
        /\ shares' = IF r.err = NoError THEN SharedAfterCopy(r.license)
                      ELSE shares
        /\ ret' = Return("GenerateLicense", r.err, r.sl, NoResult)
        /\ arg' = Arg(ZeroConfig, rec, now)
        /\ obs' = NoObs
        /\ UNCHANGED <<files, known, lfile, th>>

\* result := m.ValidateLicense(signedLicense)
ValidateLicenseCall ==
    LET r == ValidateLicense(mgr, sl, now)
    IN  /\ ~mgr.isNil
        /\ ~sl.isNil
        /\ mgr' = r.m
        /\ sl' = r.signedLicense
        /\ ret' = Return("ValidateLicense", NoError, NoLicense, r.result)
        /\ arg' = NoArg
        /\ obs' = NoObs
        /\ UNCHANGED <<files, known, now, rec, orig, frac, lfile, shares, th>>

\* err := builder.Validate(), the builder holding the caller's record
BuilderValidateCall ==
    /\ ret' = Return("Builder.Validate", BuilderValidate(rec), NoLicense, NoResult)
    /\ arg' = NoArg
    /\ obs' = NoObs
    /\ UNCHANGED <<mgr, files, known, now, rec, sl, orig, frac, lfile,
                 shares, th>>

\* the holder of a generated SignedLicense changes one field of its Data
Tamper ==
    /\ ~sl.isNil
    /\ sl = orig
    /\ \E f \in DOMAIN FieldValues : \E v \in FieldValues[f] :
          /\ v # sl.Data[f]
          /\ sl' = [sl EXCEPT !.Data[f] = v]
          /\ shares' = shares \ {f}
    /\ ret' = NoReturn
    /\ arg' = NoArg
    /\ obs' = NoObs
    /\ UNCHANGED <<mgr, files, known, now, rec, orig, frac, lfile, th>>

\* the holder of a SignedLicense assigns a field of its Data, any number of
\* times: signedLicense.Data.Customer = v
HolderEditsLicense ==
    /\ ~sl.isNil
    /\ \E f \in DOMAIN CheckedValues : \E v \in CheckedValues[f] :
          /\ v # sl.Data[f]
          /\ sl' = [sl EXCEPT !.Data[f] = v]
          /\ shares' = shares \ {f}
    /\ ret' = NoReturn
    /\ arg' = NoArg
    /\ obs' = NoObs
    /\ UNCHANGED <<mgr, files, known, now, rec, orig, frac, lfile, th>>

\* a second passes
Tick ==
    /\ now < MaxSec
    /\ now' = now + 1
    /\ ret' = NoReturn
    /\ arg' = NoArg
    /\ obs' = NoObs
    /\ UNCHANGED <<mgr, files, known, rec, sl, orig, frac, lfile, shares, th>>

\* err := m.SaveKeys(PrivatePath, PublicPath): lines 303-317; ExportPrivateKey
\* dereferences m.privateKey
SaveKeysCall ==
    /\ ~mgr.isNil
    /\ IF mgr.privateKey = NoKey
       THEN /\ ret' = Return("SaveKeys", Error("", Panic), NoLicense, NoResult)
            /\ files' = files
       ELSE /\ ret' = Return("SaveKeys", NoError, NoLicense, NoResult)
            /\ files' = [files EXCEPT ![PrivatePath] = PrivPEM(mgr.privateKey),
                                      ![PublicPath] = PubPEM(mgr.publicKey)]
    /\ arg' = NoArg
    /\ obs' = NoObs
    /\ UNCHANGED <<mgr, known, now, rec, sl, orig, frac, lfile, shares, th>>

\* a part of a second passes
SubTick ==
    /\ frac < TicksPerSec - 1
    /\ frac' = frac + 1
    /\ ret' = NoReturn
    /\ arg' = NoArg
    /\ obs' = NoObs
    /\ UNCHANGED <<mgr, files, known, now, rec, sl, orig, lfile, shares, th>>

\* the holder of a generated SignedLicense replaces its signature: by text
\* that is not base64, by the empty text, by another pair's signature over
\* the same bytes, by the same pair's signature over other bytes
TamperSignature ==
    /\ ~sl.isNil
    /\ sl = orig
    /\ \E s \in {NotBase64, EmptySig,
                  SigText(TRUE, sl.Signature.key, Sum256(Marshal(ZeroLicense)))}
                 \cup {SigText(TRUE, k, sl.Signature.digest) : k \in known} :
          /\ s # sl.Signature
          /\ sl' = [sl EXCEPT !.Signature = s]
    /\ ret' = NoReturn
    /\ arg' = NoArg
    /\ obs' = NoObs
    /\ UNCHANGED <<mgr, files, known, now, rec, orig, frac, lfile, shares,
                 th>>

\* the holder of a generated SignedLicense changes its Algorithm, its KeyID or
\* its CreatedAt
TamperWrapper ==
    /\ ~sl.isNil
    /\ sl = orig
    /\ \E f \in DOMAIN WrapperValues : \E v \in WrapperValues[f] :
          /\ v # sl[f]
          /\ sl' = [sl EXCEPT ![f] = v]
    /\ ret' = NoReturn
    /\ arg' = NoArg
    /\ obs' = NoObs
    /\ UNCHANGED <<mgr, files, known, now, rec, orig, frac, lfile, shares,
                 th>>

\* err := m.SaveLicense(signedLicense, path)
SaveLicenseCall ==
    LET r == SaveLicense(mgr, sl, lfile)
    IN  /\ ~mgr.isNil
        /\ ~sl.isNil
        /\ lfile' = r.file
        /\ ret' = Return("SaveLicense", r.err, NoLicense, NoResult)
        /\ arg' = NoArg
        /\ obs' = NoObs
        /\ UNCHANGED <<mgr, files, known, now, rec, sl, orig, frac, shares,
                 th>>

\* the license file is cut short, replaced by {} or removed
DamageFile ==
    /\ lfile.kind = "json"
    /\ lfile' \in {Truncated, EmptyObject, NoLicenseFile}
    /\ ret' = NoReturn
    /\ arg' = NoArg
    /\ obs' = NoObs
    /\ UNCHANGED <<mgr, files, known, now, rec, sl, orig, frac, shares, th>>

\* signedLicense, err := m.LoadLicense(path)
LoadLicenseCall ==
    LET r == LoadLicense(mgr, lfile)
    IN  /\ ~mgr.isNil
        /\ sl' = IF r.err = NoError THEN r.sl ELSE sl
        /\ shares' = IF r.err = NoError THEN {} ELSE shares
        /\ ret' = Return("LoadLicense", r.err, r.sl, NoResult)
        /\ arg' = NoArg
        /\ obs' = NoObs
        /\ UNCHANGED <<mgr, files, known, now, rec, orig, frac, lfile, th>>

\* signedLicense, result, err := m.LoadAndValidateLicense(path)
LoadAndValidateLicenseCall ==
    LET r == LoadAndValidateLicense(mgr, lfile, now)
    IN  /\ ~mgr.isNil
        /\ sl' = IF r.err = NoError THEN r.sl ELSE sl
        /\ shares' = IF r.err = NoError THEN {} ELSE shares
        /\ ret' = Return("LoadAndValidateLicense", r.err, r.sl, r.result)
        /\ arg' = NoArg
        /\ obs' = NoObs
        /\ UNCHANGED <<mgr, files, known, now, rec, orig, frac, lfile, th>>

\* err := m.SavePublicKey(PublicPath)
SavePublicKeyCall ==
    LET r == SavePublicKey(mgr, files, PublicPath)
    IN  /\ ~mgr.isNil
        /\ files' = r.fs
        /\ ret' = Return("SavePublicKey", r.err, NoLicense, NoResult)
        /\ arg' = NoArg
        /\ obs' = NoObs
        /\ UNCHANGED <<mgr, known, now, rec, sl, orig, frac, lfile, shares,
                 th>>

\* a call that answers and changes nothing: the answer, or the panic
Answers(op, value, panic) ==
    /\ ~mgr.isNil
    /\ ret' = IF panic THEN Return(op, Error("", Panic), NoLicense, NoResult)
              ELSE NoReturn
    /\ obs' = IF panic THEN NoObs ELSE Answer(op, value)
    /\ arg' = NoArg
    /\ UNCHANGED <<mgr, files, known, now, rec, sl, orig, frac, lfile,
                 shares, th>>

\* a package-level function answers: no Manager is needed
Replies(op, value) ==
    /\ obs' = Answer(op, value)
    /\ ret' = NoReturn
    /\ arg' = NoArg
    /\ UNCHANGED <<mgr, files, known, now, rec, sl, orig, frac, lfile,
                   shares, th>>

ExportKeysCall ==
    Answers("ExportKeys", ExportKeys(mgr), ExportKeys(mgr).panic)

ExportPrivateKeyCall ==
    Answers("ExportPrivateKey", ExportPrivateKey(mgr).text,
            ExportPrivateKey(mgr).panic)

ExportPublicKeyCall ==
    Answers("ExportPublicKey", ExportPublicKey(mgr), FALSE)

GetPublicKeyCall == Answers("GetPublicKey", mgr.publicKey, FALSE)

\* the expiry queries, asked about the caller's record
IsExpiredCall == Answers("IsExpired", IsExpired(mgr, rec, now), FALSE)

IsActiveCall == Answers("IsActive", IsActive(mgr, rec, now), FALSE)

CheckExpirationCall ==
    Answers("CheckExpiration", CheckExpiration(mgr, rec, now), FALSE)

GetLicenseInfoCall ==
    Answers("GetLicenseInfo", GetLicenseInfo(mgr, rec, now, frac), FALSE)

GetLicenseStatusCall ==
    Replies("GetLicenseStatus", GetLicenseStatus(rec, now))

IsExpiringSoonCall(within) ==
    Replies("IsExpiringSoon",
            [within |-> within, soon |-> IsExpiringSoon(rec, within, now, frac)])

CalculateRemainingTimeCall ==
    Replies("CalculateRemainingTime",
            CalculateRemainingTime(rec.ExpiresAt, now, frac))

FormatTimeUntilExpiryCall ==
    Replies("FormatTimeUntilExpiry",
            FormatTimeUntilExpiry(rec.ExpiresAt, now, frac))

\* the service lookups, asked about the caller's record
HasServiceCall(identifier) ==
    /\ obs' = Answer("HasService",
                     [identifier |-> identifier,
                      has |-> HasService(rec, identifier)])
    /\ ret' = NoReturn
    /\ arg' = NoArg
    /\ UNCHANGED <<mgr, files, known, now, rec, sl, orig, frac, lfile,
                 shares, th>>

HasServiceByIDCall(identifier) ==
    /\ obs' = Answer("HasServiceByID",
                     [identifier |-> identifier,
                      has |-> HasServiceByID(rec, identifier)])
    /\ ret' = NoReturn
    /\ arg' = NoArg
    /\ UNCHANGED <<mgr, files, known, now, rec, sl, orig, frac, lfile,
                 shares, th>>

HasServiceByNameCall(identifier) ==
    /\ obs' = Answer("HasServiceByName",
                     [identifier |-> identifier,
                      has |-> HasServiceByName(rec, identifier)])
    /\ ret' = NoReturn
    /\ arg' = NoArg
    /\ UNCHANGED <<mgr, files, known, now, rec, sl, orig, frac, lfile,
                 shares, th>>

\* a field of the record is assigned one of the values
Assigns(values) ==
    /\ \E f \in DOMAIN values : \E v \in values[f] :
          /\ v # rec[f]
          /\ rec' = [rec EXCEPT ![f] = v]
          /\ shares' = shares \ {f}
    /\ ret' = NoReturn
    /\ arg' = NoArg
    /\ obs' = NoObs
    /\ UNCHANGED <<mgr, files, known, now, sl, orig, frac, lfile, th>>

\* after the call the caller assigns a field of its record:
\* license.Customer = v, license.Limits = map[string]int{...}
CallerAssigns == Assigns(AssignedValues)

\* builder.WithCustomer(v), WithAppID(v), WithServices(v), WithExpiration(v),
\* WithVersion(v), WithEnvironment(v): lines 432-513
BuilderAssigns == Assigns(BuilderValues)

\* a Builder method that writes the record and touches no storage the
\* SignedLicense shares
BuilderWrites(license) ==
    /\ rec' = license
    /\ ret' = NoReturn
    /\ arg' = NoArg
    /\ obs' = NoObs
    /\ UNCHANGED <<mgr, files, known, now, sl, orig, frac, lfile, th>>

\* builder.WithService(service): an append that finds room leaves the
\* storage shared, one that does not moves the record's services
WithServiceCall ==
    /\ SliceLen(rec.Services) < MaxServices
    /\ \E service \in {Service("web-api", "Web API"), Service("extra", "Extra")} :
          BuilderWrites(WithService(rec, service))
    /\ shares' \in {shares, shares \ {"Services"}}

\* builder.WithExpirationTime(expiresAt)
WithExpirationTimeCall ==
    /\ \E t \in {1, MaxSec} : \E f \in 0..(TicksPerSec - 1) :
          BuilderWrites(WithExpirationTime(rec, t, f))
    /\ shares' = shares

\* builder.WithExpirationDuration(duration)
WithExpirationDurationCall ==
    /\ \E duration \in Durations :
          BuilderWrites(WithExpirationDuration(rec, duration, now, frac))
    /\ shares' = shares

\* license := builder.Build()
BuildCall ==
    /\ rec' = Build(rec, now)
    /\ obs' = Answer("Builder.Build", Build(rec, now))
    /\ ret' = NoReturn
    /\ arg' = NoArg
    /\ UNCHANGED <<mgr, files, known, now, sl, orig, frac, lfile, shares, th>>

\* after the call the caller sets an entry of a map of its record:
\* license.Limits[key] = value, or builder.WithLimit(key, value)
CallerSetsEntry ==
    /\ \E f \in DOMAIN EntryValues : \E e \in EntryValues[f] :
          /\ ~rec[f].isNil
          /\ rec' = [rec EXCEPT ![f] = SetEntry(rec[f], e.key, e.value)]
          /\ sl' = IF f \in shares
                   THEN [sl EXCEPT !.Data[f] = SetEntry(rec[f], e.key, e.value)]
                   ELSE sl
    /\ ret' = NoReturn
    /\ arg' = NoArg
    /\ obs' = NoObs
    /\ UNCHANGED <<mgr, files, known, now, orig, frac, lfile, shares, th>>

\* after the call the caller edits an element of the Services of its record:
\* license.Services[0].Name = name
CallerRenamesService ==
    /\ SliceLen(rec.Services) > 0
    /\ \E name \in ServiceNames :
          /\ rec' = [rec EXCEPT !.Services = SetName(rec.Services, 1, name)]
          /\ sl' = IF "Services" \in shares
                   THEN [sl EXCEPT !.Data.Services =
                                      SetName(sl.Data.Services, 1, name)]
                   ELSE sl
    /\ ret' = NoReturn
    /\ arg' = NoArg
    /\ obs' = NoObs
    /\ UNCHANGED <<mgr, files, known, now, orig, frac, lfile, shares, th>>

-----------------------------------------------------------------------------
(* GenerateLicense and ValidateLicense called from several goroutines: the  *)
(* statements of lines 182-219 one at a time.  A read or write of a field   *)
(* of the License behind the pointer is a step; what a goroutine computes   *)
(* from its own locals takes no step of its own.                            *)

\* the License behind goroutine i's pointer
Pointee(i) == IF th[i].ptr = "shared" THEN rec ELSE th[i].own

\* the checks of lines 182-196: the sentinel, or "" when they pass
GenerateChecks(m, license) ==
    IF ~m.config.GeneratorMode THEN ErrGeneratorModeRequired
    ELSE IF license.Customer = "" THEN ErrCustomerRequired
    ELSE IF license.AppID = "" THEN ErrAppIDRequired
    ELSE IF SliceLen(license.Services) = 0 THEN ErrNoServicesAllowed
    ELSE ""

\* goroutine i does what the step does to its locals and leaves the rest
Steps(i, locals) ==
    /\ th' = [th EXCEPT ![i] = locals]
    /\ UNCHANGED <<mgr, files, known, now, sl, ret, arg, orig, frac, lfile,
                   obs, shares>>

\* go m.GenerateLicense(license): on the caller's record or on its own
CallGenerate(i) ==
    /\ th[i].pc = "idle"
    /\ \E ptr \in {"shared", "own"} : \E own \in ConcRecords :
          LET license == IF ptr = "shared" THEN rec ELSE own
          IN  Steps(i, Locals("checks", "GenerateLicense", ptr,
                              IF ptr = "own" THEN own ELSE ZeroLicense,
                              license, now))
    /\ rec' = rec

\* lines 182-196
GenerateChecksStep(i) ==
    LET e == GenerateChecks(mgr, Pointee(i))
    IN  /\ th[i].pc = "checks"
        /\ Steps(i, IF e = ""
                    THEN [th[i] EXCEPT !.pc = "test"]
                    ELSE [th[i] EXCEPT !.pc = "done",
                            !.out = Return("GenerateLicense", Error("", e),
                                           NoLicense, NoResult)])
        /\ rec' = rec

\* line 199: if license.IssuedAt == 0
GenerateTestStep(i) ==
    /\ th[i].pc = "test"
    /\ Steps(i, [th[i] EXCEPT !.pc = IF Pointee(i).IssuedAt = 0 THEN "clock"
                                     ELSE "marshal"])
    /\ rec' = rec

\* line 200, right-hand side: time.Now().Unix()
GenerateClockStep(i) ==
    /\ th[i].pc = "clock"
    /\ Steps(i, [th[i] EXCEPT !.pc = "stamp", !.stamp = Unix(now)])
    /\ rec' = rec

\* line 200, the store: license.IssuedAt = the value read
GenerateStampStep(i) ==
    /\ th[i].pc = "stamp"
    /\ IF th[i].ptr = "shared"
       THEN /\ rec' = [rec EXCEPT !.IssuedAt = th[i].stamp]
            /\ Steps(i, [th[i] EXCEPT !.pc = "marshal"])
       ELSE /\ rec' = rec
            /\ Steps(i, [th[i] EXCEPT !.pc = "marshal",
                                      !.own.IssuedAt = th[i].stamp])

\* lines 203-211: json.Marshal(license), m.signData(data)
GenerateSignStep(i) ==
    LET data == Marshal(Pointee(i))
    IN  /\ th[i].pc = "marshal"
        /\ Steps(i, [th[i] EXCEPT !.pc = "return", !.data = data,
                        !.signature = signData(mgr, data).signature])
        /\ rec' = rec

\* the SignedLicense of lines 213-218, from the locals
Returns(locals) ==
    [locals EXCEPT !.pc = "done",
        !.out = Return("GenerateLicense", NoError,
                       SignedLicense(locals.copy, locals.signature,
                                     locals.created, "RS256"),
                       NoResult)]

\* line 214: Data: *license, the copy of the record; it comes before or after
\* the clock reading of line 216, the language does not say which
GenerateCopyStep(i) ==
    /\ th[i].pc \in {"return", "copy"}
    /\ Steps(i, IF th[i].pc = "return"
                THEN [th[i] EXCEPT !.pc = "created", !.copy = Pointee(i)]
                ELSE Returns([th[i] EXCEPT !.copy = Pointee(i)]))
    /\ rec' = rec

\* line 216: CreatedAt: time.Now().Unix()
GenerateCreatedStep(i) ==
    /\ th[i].pc \in {"return", "created"}
    /\ Steps(i, IF th[i].pc = "return"
                THEN [th[i] EXCEPT !.pc = "copy", !.created = Unix(now)]
                ELSE Returns([th[i] EXCEPT !.created = Unix(now)]))
    /\ rec' = rec

\* go m.ValidateLicense(signedLicense), on the SignedLicense the caller holds
CallValidate(i) ==
    /\ th[i].pc = "idle"
    /\ ~sl.isNil
    /\ Steps(i, Locals("validate", "ValidateLicense", "", ZeroLicense,
                       ZeroLicense, now))
    /\ rec' = rec

\* lines 222-262: no goroutine writes the SignedLicense, the clock is read
\* once
ValidateStep(i) ==
    LET r == ValidateLicense(mgr, sl, now)
    IN  /\ th[i].pc = "validate"
        /\ th' = [th EXCEPT ![i] =
                    [th[i] EXCEPT !.pc = "done",
                       !.out = Return("ValidateLicense", NoError, NoLicense,
                                      r.result)]]
        /\ mgr' = r.m
        /\ sl' = r.signedLicense
        /\ UNCHANGED <<files, known, now, rec, ret, arg, orig, frac, lfile,
                       obs, shares>>

-----------------------------------------------------------------------------
(* Specifications *)

\* licenses: a caller with a License record, a Manager built from PEM texts
Init ==
    /\ mgr = NilManager
    /\ files = [p \in KeyPaths |-> NoFile]
    /\ known = {ExternalKey}
    /\ now = 1
    /\ rec \in Records
    /\ sl = NoLicense
    /\ ret = NoReturn
    /\ arg = NoArg
    /\ orig = NoLicense
    /\ frac = 0
    /\ lfile = NoLicenseFile
    /\ obs = NoObs
    /\ shares = {}
    /\ th = [i \in Threads |-> Idle]

Next ==
    \/ \E config \in LicConfigs : NewManagerCall(config)
    \/ GenerateLicenseCall
    \/ ValidateLicenseCall
    \/ BuilderValidateCall
    \/ Tamper
    \/ Tick

Spec == Init /\ [][Next]_vars

\* key resolution: every configuration, over key files that may be missing,
\* damaged or written by SaveKeys
InitKeys ==
    /\ mgr = NilManager
    /\ files \in [KeyPaths -> {NoFile, Garbage}]
    /\ known = {ExternalKey}
    /\ now = 1
    /\ rec = ZeroLicense
    /\ sl = NoLicense
    /\ ret = NoReturn
    /\ arg = NoArg
    /\ orig = NoLicense
    /\ frac = 0
    /\ lfile = NoLicenseFile
    /\ obs = NoObs
    /\ shares = {}
    /\ th = [i \in Threads |-> Idle]

NextKeys ==
    \/ \E config \in Configs : NewManagerCall(config)
    \/ SaveKeysCall

SpecKeys == InitKeys /\ [][NextKeys]_vars

\* key parsing: every kind of key text, in the configuration and in the files
InitParse ==
    /\ mgr = NilManager
    /\ files \in [KeyPaths -> (KeyTexts \ {EmptyText}) \cup {NoFile}]
    /\ known = {ExternalKey}
    /\ now = 1
    /\ rec = ZeroLicense
    /\ sl = NoLicense
    /\ ret = NoReturn
    /\ arg = NoArg
    /\ orig = NoLicense
    /\ frac = 0
    /\ lfile = NoLicenseFile
    /\ obs = NoObs
    /\ shares = {}
    /\ th = [i \in Threads |-> Idle]

NextParse == \E config \in ParseConfigs : NewManagerCall(config)

SpecParse == InitParse /\ [][NextParse]_vars

\* expiry: a generator, records of every expiry, the clock in ticks
InitQuery ==
    /\ mgr = NilManager
    /\ files = [p \in KeyPaths |-> NoFile]
    /\ known = {ExternalKey}
    /\ now = 1
    /\ rec \in {License("acme", "app", OneService, 0, ea) : ea \in Expiries}
    /\ sl = NoLicense
    /\ ret = NoReturn
    /\ arg = NoArg
    /\ orig = NoLicense
    /\ frac = 0
    /\ lfile = NoLicenseFile
    /\ obs = NoObs
    /\ shares = {}
    /\ th = [i \in Threads |-> Idle]

NextQuery ==
    \/ \E config \in QueryConfigs : NewManagerCall(config)
    \/ GenerateLicenseCall
    \/ ValidateLicenseCall
    \/ IsExpiredCall
    \/ IsActiveCall
    \/ CheckExpirationCall
    \/ GetLicenseInfoCall
    \/ GetLicenseStatusCall
    \/ \E within \in Windows : IsExpiringSoonCall(within)
    \/ CalculateRemainingTimeCall
    \/ FormatTimeUntilExpiryCall
    \/ Tick
    \/ SubTick

SpecQuery == InitQuery /\ [][NextQuery]_vars

\* license files: a generator, a complete record, a license file that is
\* written, damaged and read back
InitFiles ==
    /\ mgr = NilManager
    /\ files = [p \in KeyPaths |-> NoFile]
    /\ known = {ExternalKey}
    /\ now = 1
    /\ rec \in FileRecords
    /\ sl = NoLicense
    /\ ret = NoReturn
    /\ arg = NoArg
    /\ orig = NoLicense
    /\ frac = 0
    /\ lfile = NoLicenseFile
    /\ obs = NoObs
    /\ shares = {}
    /\ th = [i \in Threads |-> Idle]

NextFiles ==
    \/ \E config \in QueryConfigs : NewManagerCall(config)
    \/ GenerateLicenseCall
    \/ ValidateLicenseCall
    \/ TamperSignature
    \/ TamperWrapper
    \/ SaveLicenseCall
    \/ DamageFile
    \/ LoadLicenseCall
    \/ LoadAndValidateLicenseCall
    \/ Tick

SpecFiles == InitFiles /\ [][NextFiles]_vars

\* a Manager through its life: every method, on a complete record that
\* expires with the second the clock starts at
InitManager ==
    /\ mgr = NilManager
    /\ files = [p \in KeyPaths |-> NoFile]
    /\ known = {ExternalKey}
    /\ now = MaxSec - 1
    /\ rec = License("acme", "app", OneService, 0, MaxSec - 1)
    /\ sl = NoLicense
    /\ ret = NoReturn
    /\ arg = NoArg
    /\ orig = NoLicense
    /\ frac = 0
    /\ lfile = NoLicenseFile
    /\ obs = NoObs
    /\ shares = {}
    /\ th = [i \in Threads |-> Idle]

NextManager ==
    \/ \E config \in LicConfigs : NewManagerCall(config)
    \/ GenerateLicenseCall
    \/ ValidateLicenseCall
    \/ SaveLicenseCall
    \/ LoadLicenseCall
    \/ LoadAndValidateLicenseCall
    \/ SaveKeysCall
    \/ SavePublicKeyCall
    \/ ExportKeysCall
    \/ ExportPrivateKeyCall
    \/ ExportPublicKeyCall
    \/ GetPublicKeyCall
    \/ IsExpiredCall
    \/ IsActiveCall
    \/ CheckExpirationCall
    \/ GetLicenseInfoCall
    \/ GetLicenseStatusCall

SpecManager == InitManager /\ [][NextManager]_vars

\* service lookups: records of every service list
InitService ==
    /\ mgr = NilManager
    /\ files = [p \in KeyPaths |-> NoFile]
    /\ known = {ExternalKey}
    /\ now = 1
    /\ rec \in {License("acme", "app", sv, 1, 0) : sv \in ServiceLists}
    /\ sl = NoLicense
    /\ ret = NoReturn
    /\ arg = NoArg
    /\ orig = NoLicense
    /\ frac = 0
    /\ lfile = NoLicenseFile
    /\ obs = NoObs
    /\ shares = {}
    /\ th = [i \in Threads |-> Idle]

NextService ==
    \E identifier \in Identifiers :
        \/ HasServiceCall(identifier)
        \/ HasServiceByIDCall(identifier)
        \/ HasServiceByNameCall(identifier)

SpecService == InitService /\ [][NextService]_vars

\* the record after the call: a generator, a caller that goes on editing the
\* record it has had signed
InitAlias ==
    /\ mgr = NilManager
    /\ files = [p \in KeyPaths |-> NoFile]
    /\ known = {ExternalKey}
    /\ now = 1
    /\ rec \in AliasRecords
    /\ sl = NoLicense
    /\ ret = NoReturn
    /\ arg = NoArg
    /\ orig = NoLicense
    /\ frac = 0
    /\ lfile = NoLicenseFile
    /\ obs = NoObs
    /\ shares = {}
    /\ th = [i \in Threads |-> Idle]

NextAlias ==
    \/ \E config \in QueryConfigs : NewManagerCall(config)
    \/ GenerateLicenseCall
    \/ ValidateLicenseCall
    \/ CallerAssigns
    \/ CallerSetsEntry
    \/ CallerRenamesService

SpecAlias == InitAlias /\ [][NextAlias]_vars

\* goroutines: a generator that has signed a license expiring at second 2,
\* and two goroutines that call it while the clock runs
ConcManager == NewManager(Config(NoPath, EmptyText, NoPath, EmptyText, 0, TRUE),
                          [p \in KeyPaths |-> NoFile], 1).m

InitConc ==
    /\ mgr = ConcManager
    /\ files = [p \in KeyPaths |-> NoFile]
    /\ known = {ExternalKey, ConcManager.privateKey}
    /\ now = 1
    /\ rec \in ConcRecords
    /\ sl = GenerateLicense(ConcManager, License("acme", "app", OneService, 0, 2),
                            1, 1).sl
    /\ ret = NoReturn
    /\ arg = NoArg
    /\ orig = sl
    /\ frac = 0
    /\ lfile = NoLicenseFile
    /\ obs = NoObs
    /\ shares = {}
    /\ th = [i \in Threads |-> Idle]

NextConc ==
    \/ \E i \in Threads :
          \/ CallGenerate(i)
          \/ GenerateChecksStep(i)
          \/ GenerateTestStep(i)
          \/ GenerateClockStep(i)
          \/ GenerateStampStep(i)
          \/ GenerateSignStep(i)
          \/ GenerateCopyStep(i)
          \/ GenerateCreatedStep(i)
          \/ CallValidate(i)
          \/ ValidateStep(i)
    \/ Tick

SpecConc == InitConc /\ [][NextConc]_vars

\* a Builder: from NewBuilder through its methods to Build and Validate,
\* while the clock runs
InitBuilder ==
    /\ mgr = NilManager
    /\ files = [p \in KeyPaths |-> NoFile]
    /\ known = {ExternalKey}
    /\ now = MaxSec - 1
    /\ rec = NewBuilder
    /\ sl = NoLicense
    /\ ret = NoReturn
    /\ arg = NoArg
    /\ orig = NoLicense
    /\ frac = 0
    /\ lfile = NoLicenseFile
    /\ obs = NoObs
    /\ shares = {}
    /\ th = [i \in Threads |-> Idle]

NextBuilder ==
    \/ BuilderAssigns
    \/ CallerSetsEntry
    \/ WithServiceCall
    \/ WithExpirationTimeCall
    \/ WithExpirationDurationCall
    \/ BuildCall
    \/ BuilderValidateCall
    \/ Tick
    \/ SubTick

SpecBuilder == InitBuilder /\ [][NextBuilder]_vars

\* the checks of ValidateLicense: a generated license whose holder edits
\* field after field of it, validated as the clock runs
InitChecks ==
    /\ mgr = NilManager
    /\ files = [p \in KeyPaths |-> NoFile]
    /\ known = {ExternalKey}
    /\ now = 1
    /\ rec = License("acme", "app", OneService, 0, 2)
    /\ sl = NoLicense
    /\ ret = NoReturn
    /\ arg = NoArg
    /\ orig = NoLicense
    /\ frac = 0
    /\ lfile = NoLicenseFile
    /\ obs = NoObs
    /\ shares = {}
    /\ th = [i \in Threads |-> Idle]

NextChecks ==
    \/ \E config \in LicConfigs : NewManagerCall(config)
    \/ GenerateLicenseCall
    \/ HolderEditsLicense
    \/ ValidateLicenseCall
    \/ Tick

SpecChecks == InitChecks /\ [][NextChecks]_vars

-----------------------------------------------------------------------------
(* Properties *)

Range(seq) == {seq[i] : i \in 1..Len(seq)}

\* ValidateLicense has just returned
Validated == ret.op = "ValidateLicense"

\* ValidateLicense has just judged a license that is exactly what GenerateLicense
\* returned, with the public key of the pair that signed it
RoundTrip ==
    /\ Validated
    /\ sl = orig
    /\ mgr.publicKey = orig.Signature.key

\* C1, as claimed: every license GenerateLicense returned validates as Valid
\* with no errors under the public key of the generating pair.
C1_RoundTripAlwaysValid ==
    RoundTrip => ret.res.Valid /\ ret.res.Errors = <<>>

\* C1, amended: every license GenerateLicense returned validates as Valid with
\* no errors under the public key of the generating pair, as long as it has not
\* expired at the time of validation (ExpiresAt <= 0, or now <= ExpiresAt).
C1_RoundTripValidUntilExpiry ==
    (RoundTrip /\ ~(sl.Data.ExpiresAt > 0 /\ now > sl.Data.ExpiresAt))
        => ret.res.Valid /\ ret.res.Errors = <<>>

\* a validator-only Manager, built from the exported public key, has accepted a
\* generated license that carries an expiry and was stamped by GenerateLicense
C1_Witness ==
    /\ RoundTrip
    /\ mgr.privateKey = NoKey
    /\ sl.Data.ExpiresAt > 0
    /\ orig.Signature.key # ExternalKey
    /\ ret.res.Valid

\* the holder changed one field of the generated license's Data and validated
\* it with the public key of the pair that signed it
TamperedAndValidated ==
    /\ Validated
    /\ ~orig.isNil
    /\ sl.Data # orig.Data
    /\ sl.Signature = orig.Signature
    /\ mgr.publicKey = orig.Signature.key

SignatureRejected == "signature verification failed" \in Range(ret.res.Errors)

\* C2, as claimed: any change of a single field of Data after signing makes
\* validation fail with "signature verification failed".
C2_AnyFieldChangeDetected ==
    TamperedAndValidated => ~ret.res.Valid /\ SignatureRejected

\* C2, amended: a change of a single field of Data that changes the JSON
\* encoding of Data makes validation fail with "signature verification failed"
\* (replacing a nil Limits, Features or Metadata map by an empty one, or back,
\* encodes alike under omitempty and goes unnoticed).
C2_EncodedChangeDetected ==
    (TamperedAndValidated /\ Marshal(sl.Data) # Marshal(orig.Data))
        => ~ret.res.Valid /\ SignatureRejected

\* a changed limit value was caught
C2_Witness ==
    /\ TamperedAndValidated
    /\ sl.Data.Limits # orig.Data.Limits
    /\ MapLen(sl.Data.Limits) > 0
    /\ ret.res.Errors = <<"signature verification failed">>

\* C3: ValidateLicense reports "license has expired" exactly when ExpiresAt > 0
\* and the current time is strictly later than ExpiresAt; at the instant
\* now = ExpiresAt the license is not yet expired.
C3_ExpiryReportedExactly ==
    Validated =>
        ("license has expired" \in Range(ret.res.Errors)
            <=> (sl.Data.ExpiresAt > 0 /\ now > sl.Data.ExpiresAt))

\* a license validated at the very second it expires, and found valid
C3_Witness ==
    /\ Validated
    /\ sl.Data.ExpiresAt = now
    /\ ret.res.Valid

\* GenerateLicense has just returned
Generated == ret.op = "GenerateLicense"

\* C4: a Manager without generator mode rejects every GenerateLicense call,
\* whatever the record holds, with ErrGeneratorModeRequired and no license; the
\* Manager and the license the caller holds are as before, so ValidateLicense
\* gives after the rejected call what it gave before it.
C4_ValidatorRejectsGenerate ==
    [][(GenerateLicenseCall /\ ~mgr.config.GeneratorMode) =>
          /\ ret'.err = Error("", ErrGeneratorModeRequired)
          /\ ret'.lic = NoLicense
          /\ mgr' = mgr
          /\ sl' = sl
          /\ ValidateLicense(mgr', sl', now').result
                = ValidateLicense(mgr, sl, now).result]_vars

\* a validator-only Manager holding a license has refused to generate from a
\* complete record
C4_Witness ==
    /\ Generated
    /\ mgr.privateKey = NoKey
    /\ ~sl.isNil
    /\ rec.Customer # "" /\ rec.AppID # "" /\ SliceLen(rec.Services) > 0
    /\ ret.err.cause = ErrGeneratorModeRequired

\* the error the required-field checks owe for record l: the first missing
\* field's, in the order customer, app id, services
RequiredFieldError(l) ==
    CASE l.Customer = "" -> Error("", ErrCustomerRequired)
      [] l.Customer # "" /\ l.AppID = "" -> Error("", ErrAppIDRequired)
      [] l.Customer # "" /\ l.AppID # "" /\ Len(l.Services.items) = 0
            -> Error("", ErrNoServicesAllowed)
      [] OTHER -> NoError

\* C5: in generator mode GenerateLicense fails with ErrCustomerRequired,
\* ErrAppIDRequired or ErrNoServicesAllowed for a missing customer, app id or
\* service list, returning no license, and succeeds once all three are
\* supplied; Builder.Validate gives the same errors for the same records.
C5_RequiredFields ==
    /\ (Generated /\ mgr.config.GeneratorMode) =>
          /\ ret.err = RequiredFieldError(arg.license)
          /\ ret.lic.isNil <=> (ret.err # NoError)
    /\ ret.op = "Builder.Validate" => ret.err = RequiredFieldError(rec)

\* generation refused for the app id alone
C5_Witness ==
    /\ Generated
    /\ mgr.config.GeneratorMode
    /\ arg.license.Customer # "" /\ arg.license.AppID = ""
    /\ ret.err.cause = ErrAppIDRequired
    /\ ret.lic.isNil

\* the messages of the five checks, in their order
CheckMessages ==
    <<"signature verification failed", "license has expired",
      "customer is required", "app ID is required",
      "at least one service is required">>

\* whether the license in hand fails check i now
CheckFails(i) ==
    CASE i = 1 -> ~(/\ sl.Signature.b64
                    /\ sl.Signature.key = mgr.publicKey
                    /\ sl.Signature.digest = Sum256(Marshal(sl.Data)))
      [] i = 2 -> sl.Data.ExpiresAt > 0 /\ now > sl.Data.ExpiresAt
      [] i = 3 -> sl.Data.Customer = ""
      [] i = 4 -> sl.Data.AppID = ""
      [] OTHER -> Len(sl.Data.Services.items) = 0

IsFailedCheck(msg) ==
    \E i \in DOMAIN CheckMessages : CheckMessages[i] = msg /\ CheckFails(i)

\* C6: ValidateLicense runs all five checks on every call: its error list is
\* exactly the messages of the failed checks, in the order signature, expiry,
\* customer, app id, services.
C6_AllChecksInOrder ==
    Validated => ret.res.Errors = SelectSeq(CheckMessages, IsFailedCheck)

\* all five checks failed on one call
C6_Witness ==
    /\ Validated
    /\ sl.Data.Customer = "" /\ sl.Data.AppID = ""
    /\ SliceLen(sl.Data.Services) = 0
    /\ ret.res.Errors = CheckMessages

\* C7: Valid is true exactly when Errors is empty, and Warnings stays empty.
C7_ValidIffNoErrors ==
    Validated =>
        /\ ret.res.Valid <=> (ret.res.Errors = <<>>)
        /\ ret.res.Warnings = <<>>

\* an untouched license found invalid for expiry alone
C7_Witness ==
    /\ Validated
    /\ sl = orig
    /\ ~ret.res.Valid
    /\ ret.res.Errors = <<"license has expired">>

\* C8: ValidateLicense changes neither the SignedLicense passed in nor the
\* Manager, and called again on the same license at the same time it returns
\* the same result.
C8_ValidatePure ==
    [][ValidateLicenseCall =>
          /\ sl' = sl
          /\ mgr' = mgr
          /\ Validated => ret'.res = ret.res]_vars

\* a tampered license with nil maps has been validated
C8_Witness ==
    /\ Validated
    /\ sl # orig
    /\ sl.Data.Limits.isNil
    /\ ~ret.res.Valid

\* C9, as claimed: after GenerateLicense, successful or not, the caller's
\* record holds what it held before the call and the Manager is unchanged.
C9_GenerateLeavesRecord ==
    [][GenerateLicenseCall => (rec' = rec /\ mgr' = mgr)]_vars

\* NewManager has just returned
Constructed == ret.op = "NewManager"

\* C10: in generator mode the private key comes from the PEM text when one is
\* supplied (a text that does not parse aborts construction), else from the
\* file at the private-key path, else from a fresh pair of the configured
\* size, 2048 bits when KeySize is 0.
C10_PrivateKeyPriority ==
    (Constructed /\ arg.config.GeneratorMode) =>
        LET c == arg.config
            aborted == mgr.isNil /\ ret.err.wrap = "failed to setup private key"
        IN  IF c.PrivateKeyPEM # EmptyText
            THEN IF c.PrivateKeyPEM.kind = "RSA PRIVATE KEY"
                 THEN ~mgr.isNil => mgr.privateKey = c.PrivateKeyPEM.key
                 ELSE aborted
            ELSE IF c.PrivateKeyPath # NoPath
            THEN IF files[c.PrivateKeyPath].kind = "RSA PRIVATE KEY"
                 THEN ~mgr.isNil => mgr.privateKey = files[c.PrivateKeyPath].key
                 ELSE aborted
            ELSE ~mgr.isNil =>
                    /\ mgr.privateKey.bits = (IF c.KeySize = 0 THEN 2048 ELSE c.KeySize)
                    /\ mgr.privateKey.id = Cardinality(known)
                    /\ mgr.privateKey \notin
                          {ExternalKey} \cup {files[p].key : p \in KeyPaths}

\* PEM text and path both supplied, the file holding another pair's key: the
\* PEM text won
C10_Witness ==
    /\ Constructed
    /\ arg.config.GeneratorMode
    /\ arg.config.PrivateKeyPEM = PrivPEM(ExternalKey)
    /\ arg.config.PrivateKeyPath = PrivatePath
    /\ files[PrivatePath].kind = "RSA PRIVATE KEY"
    /\ files[PrivatePath].key # ExternalKey
    /\ mgr.privateKey = ExternalKey

\* a public key is supplied to NewManager, as PEM text or as a path
PublicSupplied(c) == c.PublicKeyPEM # EmptyText \/ c.PublicKeyPath # NoPath

\* the key text NewManager consults for the private key (generator mode) and
\* for the public key; NoFile when it consults none or the file is missing.
\* NewManager leaves the files as they are.
PrivateText(c) ==
    IF c.PrivateKeyPEM # EmptyText THEN c.PrivateKeyPEM
    ELSE IF c.PrivateKeyPath # NoPath THEN files[c.PrivateKeyPath]
    ELSE NoFile

PublicText(c) ==
    IF c.PublicKeyPEM # EmptyText THEN c.PublicKeyPEM
    ELSE IF c.PublicKeyPath # NoPath THEN files[c.PublicKeyPath]
    ELSE NoFile

\* the private key of generator mode is supplied and unusable
PrivateUnusable(c) ==
    /\ c.GeneratorMode
    /\ c.PrivateKeyPEM # EmptyText \/ c.PrivateKeyPath # NoPath
    /\ PrivateText(c).kind # "RSA PRIVATE KEY"

\* the public key is supplied and unusable
PublicUnusable(c) == PublicSupplied(c) /\ PublicText(c).kind # "PUBLIC KEY"

\* C11, as claimed: a Manager built in generator mode holds the public key of
\* its private key, whatever public key the configuration supplies.
C11_PublicAlwaysDerived ==
    (Constructed /\ ~mgr.isNil /\ arg.config.GeneratorMode) =>
        mgr.publicKey = mgr.privateKey

\* C11, amended: in generator mode with no public key supplied, NewManager
\* fails when the private key is unusable and otherwise returns a Manager whose
\* public key is the one of its private key, however that key was obtained.
C11_PublicDerivedUnlessSupplied ==
    (Constructed /\ arg.config.GeneratorMode /\ ~PublicSupplied(arg.config)) =>
        IF PrivateUnusable(arg.config)
        THEN mgr.isNil
        ELSE /\ ~mgr.isNil
             /\ mgr.privateKey # NoKey
             /\ mgr.publicKey = mgr.privateKey

\* the private key read from a file, no public key supplied
C11_Witness ==
    /\ Constructed
    /\ arg.config.GeneratorMode
    /\ ~PublicSupplied(arg.config)
    /\ arg.config.PrivateKeyPEM = EmptyText
    /\ arg.config.PrivateKeyPath = PrivatePath
    /\ ~mgr.isNil
    /\ mgr.privateKey = files[PrivatePath].key
    /\ mgr.publicKey = mgr.privateKey

\* C12: a supplied public key, the PEM text before the file at the path, is
\* the key the Manager verifies with, in validator and in generator mode,
\* whatever the private key is; when it does not parse no Manager is built.
C12_SuppliedPublicKeyOverrides ==
    (Constructed /\ PublicSupplied(arg.config)) =>
        LET c == arg.config
            supplied == IF c.PublicKeyPEM # EmptyText THEN c.PublicKeyPEM
                        ELSE files[c.PublicKeyPath]
        IN  IF supplied.kind = "PUBLIC KEY"
            THEN /\ ~mgr.isNil => mgr.publicKey = supplied.key
                 /\ ~PrivateUnusable(c) => ~mgr.isNil
            ELSE mgr.isNil

\* generator mode, PEM text and path both supplied, the file holding the
\* Manager's own pair: the Manager verifies with the key of the PEM text
C12_Witness ==
    /\ Constructed
    /\ arg.config.GeneratorMode
    /\ arg.config.PublicKeyPEM = PubPEM(ExternalKey)
    /\ arg.config.PublicKeyPath = PublicPath
    /\ files[PublicPath].kind = "PUBLIC KEY"
    /\ files[PublicPath].key # ExternalKey
    /\ mgr.privateKey = files[PublicPath].key
    /\ mgr.publicKey = ExternalKey

\* C13: NewManager returns a Manager or an error, never both and never
\* neither; validator mode with no public key supplied fails with
\* ErrNoPublicKey, and only that does; an unusable key among those NewManager
\* consults fails construction; a returned Manager has a public key.
C13_ConfigurationErrorsFatal ==
    Constructed =>
        LET c == arg.config
        IN  /\ mgr.isNil <=> (ret.err # NoError)
            /\ (~c.GeneratorMode /\ ~PublicSupplied(c))
                  <=> (ret.err = Error("", ErrNoPublicKey))
            /\ (PrivateUnusable(c) \/ PublicUnusable(c)) => mgr.isNil
            /\ ~mgr.isNil => mgr.publicKey # NoKey

\* validator mode with a good private key text and no public key
C13_Witness ==
    /\ Constructed
    /\ ~arg.config.GeneratorMode
    /\ arg.config.PrivateKeyPEM = PrivPEM(ExternalKey)
    /\ ~PublicSupplied(arg.config)
    /\ mgr.isNil
    /\ ret.err.cause = ErrNoPublicKey

\* C14, as claimed: when NewManager fails on a key text it could read, the
\* error is ErrInvalidPrivateKey for the private key and ErrInvalidPublicKey
\* for the public key.
C14_ParseFailuresTyped ==
    (Constructed /\ ret.err # NoError /\ ret.err.cause \notin {ErrNoPublicKey, OsError}) =>
        IF ret.err.wrap = "failed to setup private key"
        THEN ret.err.cause = ErrInvalidPrivateKey
        ELSE ret.err.cause = ErrInvalidPublicKey

\* a validation of the license in hand has just returned: by ValidateLicense,
\* or by LoadAndValidateLicense on the license it read
ValidatedOrLoaded ==
    \/ ret.op = "ValidateLicense"
    \/ ret.op = "LoadAndValidateLicense" /\ ret.err = NoError

\* the signature of the license in hand does not verify
SignatureBad ==
    ~(/\ sl.Signature.b64
      /\ sl.Signature.key = mgr.publicKey
      /\ sl.Signature.digest = Sum256(Marshal(sl.Data)))

\* C15: when the signature does not verify the result is invalid with the one
\* message "signature verification failed" for it, and it is the result the
\* same license gets with a signature that is not base64 and with a base64
\* signature that does not match.
C15_SignatureFailureUniform ==
    (ValidatedOrLoaded /\ SignatureBad) =>
        /\ ~ret.res.Valid
        /\ ret.res.Errors[1] = "signature verification failed"
        /\ Range(ret.res.Errors) \subseteq Range(CheckMessages)
        /\ ret.res = ValidateLicense(mgr, [sl EXCEPT !.Signature = NotBase64],
                                     now).result
        /\ ret.res = ValidateLicense(mgr, [sl EXCEPT !.Signature = EmptySig],
                                     now).result

\* a license whose signature was replaced by text that is not base64, found
\* invalid for the signature alone
C15_Witness ==
    /\ ret.op = "ValidateLicense"
    /\ sl.Signature = NotBase64
    /\ sl.Data = orig.Data
    /\ ret.res.Errors = <<"signature verification failed">>

\* C16: LoadAndValidateLicense on a missing file or on bytes that do not
\* decode returns an error, no license and no result, without a panic; on
\* bytes that decode it returns no error, the license and a result that is
\* valid or lists its errors.
C16_LoadFailuresApart ==
    ret.op = "LoadAndValidateLicense" =>
        IF lfile.kind \in {"ENOENT", "truncated"}
        THEN /\ ret.err # NoError
             /\ ret.err.cause \in {OsError, JsonError}
             /\ ret.err.wrap = (IF lfile.kind = "ENOENT"
                                THEN "failed to read license file"
                                ELSE "failed to unmarshal license")
             /\ ret.lic.isNil
             /\ ret.res = NoResult
        ELSE /\ ret.err = NoError
             /\ ~ret.lic.isNil
             /\ ret.lic = Unmarshal(lfile).v
             /\ ret.res # NoResult
             /\ ret.res.Valid <=> (ret.res.Errors = <<>>)
             /\ ret.res = ValidateLicense(mgr, ret.lic, now).result

\* a saved license with a replaced signature was read back and found invalid,
\* with no error
C16_Witness ==
    /\ ret.op = "LoadAndValidateLicense"
    /\ lfile.kind = "json"
    /\ ret.err = NoError
    /\ ~ret.lic.isNil
    /\ ret.res.Errors = <<"signature verification failed">>

\* C17: at one instant and for one license, IsExpired is true exactly past a
\* set expiry, IsActive is its negation, CheckExpiration returns
\* ErrLicenseExpired exactly when it is true and nil otherwise, and
\* ValidateLicense lists "license has expired" exactly when it is true.
C17_ExpiryQueriesAgree ==
    /\ obs.op = "IsExpired" =>
          obs.value = (rec.ExpiresAt > 0 /\ now > rec.ExpiresAt)
    /\ obs.op = "IsActive" => obs.value = ~IsExpired(mgr, rec, now)
    /\ obs.op = "CheckExpiration" =>
          obs.value = (IF IsExpired(mgr, rec, now)
                       THEN Error("", "license has expired") ELSE NoError)
    /\ Validated =>
          ("license has expired" \in Range(ret.res.Errors))
              <=> IsExpired(mgr, sl.Data, now)

\* CheckExpiration has refused a license that a Manager generated and that
\* expired since
C17_Witness ==
    /\ obs.op = "CheckExpiration"
    /\ obs.value.cause = "license has expired"
    /\ ~sl.isNil
    /\ sl.Data = rec
    /\ sl.CreatedAt <= rec.ExpiresAt

\* the ticks from now to the expiry of the caller's record (negative once it
\* is past)
TicksLeft == (rec.ExpiresAt - now) * TicksPerSec - frac

\* C18: for a record whose expiry is set, IsExpiringSoon answers true exactly
\* when the time left until expiry is at most the window.
C18_ExpiringSoonWithinWindow ==
    (obs.op = "IsExpiringSoon" /\ rec.ExpiresAt # 0) =>
        (obs.value.soon <=> (TicksLeft <= obs.value.within))

\* the window is exactly the time left, a part of a second
C18_Witness ==
    /\ obs.op = "IsExpiringSoon"
    /\ rec.ExpiresAt > 0
    /\ frac > 0
    /\ TicksLeft > 0
    /\ obs.value.within = TicksLeft
    /\ obs.value.soon

\* C19: a record with ExpiresAt = 0 never expires: at every instant IsExpired
\* is false, IsActive true, CheckExpiration nil, GetLicenseStatus and the
\* Status of GetLicenseInfo "active", the time until expiry "License never
\* expired", IsExpiringSoon false for every window, and ValidateLicense
\* reports no expiry.
C19_UnsetExpiryPerpetual ==
    /\ rec.ExpiresAt = 0 =>
          /\ obs.op = "IsExpired" => ~obs.value
          /\ obs.op = "IsActive" => obs.value
          /\ obs.op = "CheckExpiration" => obs.value = NoError
          /\ obs.op = "GetLicenseStatus" => obs.value = "active"
          /\ obs.op = "GetLicenseInfo" =>
                /\ obs.value.Status = "active"
                /\ obs.value.TimeUntilExpiry = Text("License never expired")
                /\ obs.value.ExpiresAt.isNil
          /\ obs.op = "FormatTimeUntilExpiry" =>
                obs.value = Text("License never expired")
          /\ obs.op = "IsExpiringSoon" => ~obs.value.soon
    /\ (Validated /\ sl.Data.ExpiresAt = 0) =>
          "license has expired" \notin Range(ret.res.Errors)

\* the time until expiry of a perpetual record asked late in the clock's run
C19_Witness ==
    /\ rec.ExpiresAt = 0
    /\ now > 1
    /\ frac > 0
    /\ obs.op = "FormatTimeUntilExpiry"
    /\ obs.value.text = "License never expired"

\* C20: a validator-only Manager has no private key, whatever private-key
\* text or path its configuration holds, and a generator has one; no call
\* other than NewManager, which hands the caller a new Manager, changes the
\* mode, the private key or the public key of the Manager the caller holds.
C20_ManagerFixedAtConstruction ==
    /\ [](~mgr.isNil =>
             /\ mgr.config.GeneratorMode <=> (mgr.privateKey # NoKey)
             /\ mgr.publicKey # NoKey)
    /\ [][ret'.op # "NewManager" => mgr' = mgr]_vars

\* a validator built with a private-key text in its configuration has read
\* and validated a license file, and holds no private key
C20_Witness ==
    /\ ret.op = "LoadAndValidateLicense"
    /\ ret.err = NoError
    /\ ret.res.Valid
    /\ ~mgr.config.GeneratorMode
    /\ mgr.config.PrivateKeyPEM = PrivPEM(ExternalKey)
    /\ mgr.privateKey = NoKey
    /\ files[PrivatePath] # NoFile

\* C22: the fields around Data and Signature are not signed: the license in
\* hand with any other Algorithm, KeyID or CreatedAt gets, from the same
\* Manager at the same time, the result it has just got.
C22_WrapperNotSigned ==
    ValidatedOrLoaded =>
        \A f \in DOMAIN WrapperValues : \A v \in WrapperValues[f] :
            ValidateLicense(mgr, [sl EXCEPT ![f] = v], now).result = ret.res

\* a generated license whose algorithm tag was changed is found valid
C22_Witness ==
    /\ ret.op = "ValidateLicense"
    /\ sl.Algorithm = "none"
    /\ sl.Data = orig.Data
    /\ sl.Signature = orig.Signature
    /\ ret.res.Valid

\* the services of the caller's record
ServicesOfRecord == Range(rec.Services.items)

\* C23: HasService is true exactly when the identifier is the ID or the Name
\* of a service of the record, compared as they are written, so never for a
\* record without services; HasServiceByID compares the IDs only and
\* HasServiceByName the Names only, and HasService is their disjunction.
C23_HasServiceExact ==
    /\ obs.op = "HasService" =>
          /\ obs.value.has <=>
                \E s \in ServicesOfRecord :
                    s.ID = obs.value.identifier \/ s.Name = obs.value.identifier
          /\ obs.value.has <=>
                \/ HasServiceByID(rec, obs.value.identifier)
                \/ HasServiceByName(rec, obs.value.identifier)
          /\ SliceLen(rec.Services) = 0 => ~obs.value.has
    /\ obs.op = "HasServiceByID" =>
          (obs.value.has <=>
              \E s \in ServicesOfRecord : s.ID = obs.value.identifier)
    /\ obs.op = "HasServiceByName" =>
          (obs.value.has <=>
              \E s \in ServicesOfRecord : s.Name = obs.value.identifier)

\* a service found by the Name of the second service of the list, one that
\* no ID equals
C23_Witness ==
    /\ obs.op = "HasService"
    /\ obs.value.has
    /\ SliceLen(rec.Services) = 2
    /\ rec.Services.items[2].Name = obs.value.identifier
    /\ ~HasServiceByID(rec, obs.value.identifier)

\* C24, as claimed: LoadLicense of the file SaveLicense writes from the
\* license in hand succeeds and gives a license with the same signature whose
\* Data encodes to the same bytes, so that it gets the same result from
\* ValidateLicense.
C24_SaveLoadKeepsVerdict ==
    [][(LoadLicenseCall /\ lfile = SaveLicense(mgr, sl, lfile).file) =>
          /\ ret'.err = NoError
          /\ sl' = ret'.lic
          /\ sl'.Signature = sl.Signature
          /\ Marshal(sl'.Data) = Marshal(sl.Data)
          /\ ValidateLicense(mgr, sl', now).result
                = ValidateLicense(mgr, sl, now).result]_vars

\* C25: a successful GenerateLicense returns the caller's record with the
\* issued-at set to the time of the call when it was 0 and left as supplied
\* otherwise, a non-empty signature made over the encoding of that content
\* (final issued-at included), the algorithm "RS256" and the time of the
\* call as creation time.  The two times are two readings of the clock: the
\* issued-at the one at line 200, the creation time the later one at line
\* 216, which is the clock's time when the call returns.
C25_IssuedAtStampedWhenUnset ==
    (Generated /\ ret.err = NoError) =>
        /\ ret.lic.Data =
              [arg.license EXCEPT !.IssuedAt =
                  IF arg.license.IssuedAt = 0 THEN Unix(arg.t)
                  ELSE arg.license.IssuedAt]
        /\ ret.lic.Signature # EmptySig
        /\ ret.lic.Signature = signData(mgr, Marshal(ret.lic.Data)).signature
        /\ ret.lic.Algorithm = "RS256"
        /\ ret.lic.CreatedAt = Unix(now)
        /\ arg.t \in 1..now

\* a record issued at second 1 has been signed at a later second and kept
\* its issued-at
C25_Witness ==
    /\ Generated
    /\ ret.err = NoError
    /\ arg.license.IssuedAt = 1
    /\ now > 1
    /\ ret.lic.Data.IssuedAt = 1
    /\ ret.lic.CreatedAt = now

\* C26, as claimed: the LicenseInfo GetLicenseInfo returns has the Status
\* "expired" exactly when its TimeUntilExpiry is "License expired", at every
\* instant, the ones inside the second of expiry included.
C26_InfoAgreesWithItself ==
    obs.op = "GetLicenseInfo" =>
        (obs.value.Status = StatusExpired
            <=> obs.value.TimeUntilExpiry = Text(LicenseExpired))

\* C27, as claimed: GetLicenseStatus answers "expired" exactly when
\* Manager.IsExpired is true of the same record at the same time, for every
\* ExpiresAt, the negative ones included.
C27_StatusAgreesWithIsExpired ==
    obs.op = "GetLicenseStatus" =>
        (obs.value = StatusExpired <=> IsExpired(mgr, rec, now))

\* C30, as claimed: on a Manager that holds no private key, ExportKeys,
\* ExportPrivateKey and SaveKeys return: none of them panics, and what they
\* return holds no private key.
C30_ValidatorExportsReturn ==
    (~mgr.isNil /\ mgr.privateKey = NoKey) =>
        /\ ret.op \in {"ExportKeys", "ExportPrivateKey", "SaveKeys"}
              => ret.err.cause # Panic
        /\ obs.op = "ExportPrivateKey" => obs.value = EmptyText
        /\ obs.op = "ExportKeys" => obs.value.privateKey = EmptyText

\* the caller changes its record
CallerEdits == CallerAssigns \/ CallerSetsEntry \/ CallerRenamesService

\* C28, as claimed: whatever the caller does to its record once
\* GenerateLicense has returned a SignedLicense from it, the Data of that
\* SignedLicense stays what it was and ValidateLicense gives it the result
\* it gave before.
C28_LicenseIndependentOfRecord ==
    [][(CallerEdits /\ ~sl.isNil /\ ~mgr.isNil) =>
          /\ sl'.Data = sl.Data
          /\ ValidateLicense(mgr, sl', now).result
                = ValidateLicense(mgr, sl, now).result]_vars

\* goroutine i's call has returned
Returned(i, op) == th[i].pc = "done" /\ th[i].op = op

\* what goroutine i's call returned is what the call returns when no other
\* goroutine runs: begun on the record and at the second it began, with its
\* two readings of the clock taken at seconds up to now
AsAlone(i) ==
    \/ /\ Returned(i, "GenerateLicense")
       /\ \E t1 \in th[i].t0..now : \E t2 \in t1..now :
             LET r == GenerateLicense(mgr, th[i].entry, t1, t2)
             IN  /\ th[i].out.err = r.err
                 /\ th[i].out.lic = r.sl
    \/ /\ Returned(i, "ValidateLicense")
       /\ \E t \in th[i].t0..now :
             th[i].out.res = ValidateLicense(mgr, sl, t).result

\* C21, as claimed: while goroutines call GenerateLicense and ValidateLicense
\* on one Manager, no step writes the Manager, and every call that has
\* returned has returned what it returns when run alone, whatever the
\* interleaving.
C21_ConcurrentCallsAsAlone ==
    /\ [](\A i \in Threads : th[i].pc = "done" => AsAlone(i))
    /\ [][mgr' = mgr]_vars

\* C29, as claimed: when two GenerateLicense calls on one Manager and one
\* record whose issued-at is unset have both returned a license, the
\* signature of each verifies against the Data returned with it.
C29_SharedRecordSignaturesVerify ==
    (\A i \in Threads : /\ Returned(i, "GenerateLicense")
                        /\ th[i].ptr = "shared"
                        /\ th[i].entry.IssuedAt = 0
                        /\ th[i].out.err = NoError)
        => \A i \in Threads :
              verifySignature(mgr, Marshal(th[i].out.lic.Data),
                              th[i].out.lic.Signature) = ""

====
